---------------------------- MODULE Spec2Model ----------------------------
(***************************************************************************)
(* Change analysis of the SDK automation: ChangeAnalyzer                  *)
(* (automation/change-analyzer.mjs) and DiffAnalyzer.parseStructuredDiff  *)
(* (automation/diff-analyzer.mjs).                                        *)
(*                                                                         *)
(* Text is a sequence of atoms.  An atom stands for a run of characters   *)
(* that no other atom of the checked inputs contains or overlaps, so that *)
(* "is a substring of" on the text is "is a contiguous subsequence of" on *)
(* the atoms: 'src/generated/index.js' is                                 *)
(* <<"src","/","generated","/","index",".","js">>.                        *)
(***************************************************************************)
EXTENDS Integers, Sequences, FiniteSets, TLC

VARIABLES
  riskIn,         \* assessRisk: <<the analysis object handed in>>
  riskOut,        \* assessRisk: <<the value returned>>, <<>> before the call
  diffOutput,     \* parseStructuredDiff: the text handed in, as its lines
  structuredDiff, \* parseStructuredDiff: <<the outcome>>, <<>> before the call
  diffData,       \* getGeneratedDiff: <<the value returned>>, <<>> before the call
  git,            \* the git executable: "ok", "nodiff" (git diff fails), "down"
  tree,           \* the working tree: the changed files git status reports
  disk,           \* ./automation: the files saveAnalysis has written
  pc,             \* analyzeChanges: the statement the run is at
  analysis,       \* analyzeChanges: the report under construction, field by field
  tsFiles,        \* analyzeWrapperImpact: its local `tsFiles`
  impact,         \* analyzeWrapperImpact: its local `impact`
  clientAnalyses, \* analyzeWrapperImpact: what analyzeClientFile returned, per loop turn
  failed,         \* history: the reads and writes of the run that failed
  failedFiles,    \* history: the paths of the files whose read failed
  pr,             \* create-pr.mjs main: how far it is, and the report it hands on
  again,          \* repeated calls: the text, the source, and what each call returned
  meta,           \* checkForChanges: the OpenAPI file, the metadata file, and each call's outcome
  flow,           \* the git workflow: which class runs it, the working tree, the git commands run
  prAuto,         \* PRAutomation.createPullRequest: its configuration, the methods tried, its result
  basic,          \* BasicSDKUpdater.run: its configuration, the statement it is at, what it holds
  wrapper,        \* WrapperUpdater.applyAutomatedChanges: the suggested updates, the client files, the results
  llm,            \* LLMAnalyzer.analyzeChanges: the client, the diff summary, the response, the result
  highlights,     \* the diff highlights: what extractDiffHighlights and formatDiffHighlights returned
  upd             \* SDKUpdater: its configuration, the files it keeps, and its run

vars == <<highlights, llm, wrapper, basic, prAuto, flow, meta, riskIn, riskOut, diffOutput, structuredDiff, diffData, git, tree, disk, pc,
          analysis, tsFiles, impact, clientAnalyses, failed, failedFiles, pr, again,
          upd>>

-----------------------------------------------------------------------------
(* Bounds of the checked inputs *)

MaxTotalFiles == 25
MaxAffected == 4
MaxGenerated == 12
MaxLines == 4
MaxClientFiles == 2
MaxApiFiles == 2
MaxCalls == 2
MaxRepeatLines == 3
MaxRuns == 2
MaxFlowFiles == 2
MaxUpdates == 2

-----------------------------------------------------------------------------
(* String.prototype operations, on text as a sequence of atoms *)

StartsWith(s, t) == Len(t) <= Len(s) /\ SubSeq(s, 1, Len(t)) = t

EndsWith(s, t) == Len(t) <= Len(s) /\ SubSeq(s, Len(s) - Len(t) + 1, Len(s)) = t

Occurrences(s, t) == {i \in 1..(Len(s) - Len(t) + 1) : SubSeq(s, i, i + Len(t) - 1) = t}

Includes(s, t) == Occurrences(s, t) # {}

\* s.replace(pat, rep) with a string pattern: the first occurrence only
Replace(s, pat, rep) ==
  IF ~Includes(s, pat) THEN s
  ELSE LET i == CHOOSE k \in Occurrences(s, pat) : \A j \in Occurrences(s, pat) : k <= j
       IN SubSeq(s, 1, i - 1) \o rep \o SubSeq(s, i + Len(pat), Len(s))

Has(r, f) == f \in DOMAIN r

-----------------------------------------------------------------------------
(* ChangeAnalyzer.assessRisk *)

\* The branches tested smallest threshold first
FileImpactAscending(totalFiles) ==
  IF totalFiles > 20 THEN 1
  ELSE IF totalFiles > 10 THEN 2
  ELSE IF totalFiles > 5 THEN 1
  ELSE 0

FileImpact(totalFiles) ==
  IF totalFiles > 20 THEN 3
  ELSE IF totalFiles > 10 THEN 2
  ELSE IF totalFiles > 5 THEN 1
  ELSE 0

ClientImpact(affectedClients) ==
  IF affectedClients > 3 THEN 3
  ELSE IF affectedClients > 1 THEN 2
  ELSE IF affectedClients > 0 THEN 1
  ELSE 0

GeneratedImpact(generatedChanges) ==
  IF generatedChanges > 10 THEN 2
  ELSE IF generatedChanges > 5 THEN 1
  ELSE 0

RiskLevelLax(score) ==
  IF score > 6 THEN "HIGH"
  ELSE IF score >= 3 THEN "MEDIUM"
  ELSE "LOW"

RiskLevel(score) ==
  IF score >= 6 THEN "HIGH"
  ELSE IF score >= 3 THEN "MEDIUM"
  ELSE "LOW"

\* `x || 0` and `a?.b?.length || 0`: a missing field counts 0
RiskFactors(a) ==
  [totalFiles |-> IF Has(a.gitChanges, "totalFiles") THEN a.gitChanges.totalFiles ELSE 0,
   affectedClients |-> IF Has(a.wrapperImpact, "affectedClients")
                       THEN Len(a.wrapperImpact.affectedClients) ELSE 0,
   generatedChanges |-> IF Has(a.generatedCodeChanges, "apiFiles")
                        THEN Len(a.generatedCodeChanges.apiFiles) ELSE 0]

AssessRisk(a) ==
  LET factors == RiskFactors(a)
      score == FileImpact(factors.totalFiles) + ClientImpact(factors.affectedClients)
               + GeneratedImpact(factors.generatedChanges)
  IN [level |-> RiskLevel(score), score |-> score, factors |-> factors]

\* An analysis object with the given counts
AnalysisWith(n, c, g) ==
  [gitChanges |-> [totalFiles |-> n],
   generatedCodeChanges |-> [apiFiles |-> [i \in 1..g |-> i]],
   wrapperImpact |-> [affectedClients |-> [i \in 1..c |-> i]]]

-----------------------------------------------------------------------------
(* DiffAnalyzer.parseStructuredDiff.  A line is a sequence of atoms; the   *)
(* atoms "diff --git", "new file mode", "deleted file mode", "@@", "+",    *)
(* "-" and " " are the prefixes the parser tests with startsWith.          *)

\* /diff --git a\/(.+) b\/(.+)/ : the places where " b/" can end the greedy first group
HeaderSplits(line) ==
  {j \in 1..Len(line) :
     /\ line[j] = " b/"
     /\ j < Len(line)
     /\ \E i \in 1..(j - 3) : line[i] = "diff --git" /\ line[i + 1] = " a/"}

\* line.match(...) ? match[2] : 'unknown'
HeaderPath(line) ==
  IF HeaderSplits(line) = {} THEN <<"unknown">>
  ELSE LET j == CHOOSE k \in HeaderSplits(line) : \A m \in HeaderSplits(line) : m <= k
       IN SubSeq(line, j + 1, Len(line))

\* A file record that starts out marked as new
NewFileMarkedNew(line) ==
  [path |-> HeaderPath(line), hunks |-> <<>>, isNewFile |-> TRUE, isDeletedFile |-> FALSE]

NewFile(line) ==
  [path |-> HeaderPath(line), hunks |-> <<>>, isNewFile |-> FALSE, isDeletedFile |-> FALSE]

IsContent(line) ==
  StartsWith(line, <<"+">>) \/ StartsWith(line, <<"-">>) \/ StartsWith(line, <<" ">>)

ChangeOf(line) ==
  [type |-> IF StartsWith(line, <<"+">>) THEN "addition"
            ELSE IF StartsWith(line, <<"-">>) THEN "deletion"
            ELSE "context",
   content |-> Tail(line)]

\* The parser's locals before the loop.  currentFile is <<>> for null;
\* currentHunk refers to a hunk of currentFile by its place in hunks, 0 for null.
ParseStart == [files |-> <<>>, currentFile |-> <<>>, currentHunk |-> 0, threw |-> FALSE]

\* `if (currentFile) { currentHunk = {...}; currentFile.hunks.push(currentHunk) }`
OpenHunkUnguarded(st, line) ==
  IF st.currentFile = <<>> THEN [st EXCEPT !.threw = TRUE]
  ELSE LET f == st.currentFile[1]
       IN [st EXCEPT !.currentFile = <<[f EXCEPT !.hunks = Append(@, [header |-> line, changes |-> <<>>])]>>,
                     !.currentHunk = Len(f.hunks) + 1]

OpenHunk(st, line) ==
  IF st.currentFile = <<>> THEN st
  ELSE LET f == st.currentFile[1]
       IN [st EXCEPT !.currentFile = <<[f EXCEPT !.hunks = Append(@, [header |-> line, changes |-> <<>>])]>>,
                     !.currentHunk = Len(f.hunks) + 1]

\* `if (currentFile) files.push(currentFile); currentFile = {...}; currentHunk = null`
OpenFile(st, line) ==
  [st EXCEPT !.files = @ \o st.currentFile,
             !.currentFile = <<NewFile(line)>>,
             !.currentHunk = 0]

\* `currentHunk.changes.push({type, content})`, the hunk being the one in currentFile
PushChangeAsAddition(st, line) ==
  [st EXCEPT !.currentFile[1].hunks[st.currentHunk].changes =
               Append(@, [ChangeOf(line) EXCEPT !.type = "addition"])]

PushChange(st, line) ==
  [st EXCEPT !.currentFile[1].hunks[st.currentHunk].changes = Append(@, ChangeOf(line))]

\* One turn of `for (const line of lines)`
ParseLine(st, line) ==
  IF st.threw THEN st
  ELSE IF StartsWith(line, <<"diff --git">>) THEN OpenFile(st, line)
  ELSE IF StartsWith(line, <<"new file mode">>) THEN
    IF st.currentFile # <<>> THEN [st EXCEPT !.currentFile[1].isNewFile = TRUE] ELSE st
  ELSE IF StartsWith(line, <<"deleted file mode">>) THEN
    IF st.currentFile # <<>> THEN [st EXCEPT !.currentFile[1].isDeletedFile = TRUE] ELSE st
  ELSE IF StartsWith(line, <<"@@">>) THEN OpenHunk(st, line)
  ELSE IF st.currentHunk # 0 /\ IsContent(line) THEN PushChange(st, line)
  ELSE st

RECURSIVE ParseLines(_, _)
ParseLines(st, lines) ==
  IF lines = <<>> THEN st ELSE ParseLines(ParseLine(st, Head(lines)), Tail(lines))

\* The outcome: the exception that escaped, or `{ files }`
ParseStructuredDiff(lines) ==
  LET st == ParseLines(ParseStart, lines)
  IN [threw |-> st.threw,
      files |-> IF st.threw THEN <<>> ELSE st.files \o st.currentFile]

\* An array that outlives the call: it starts as the call before left it
KeptArray(left) == left

\* `const files = []` and `const endpoints = []`: the array literal of a call,
\* whatever the call before left in its own
NewArray(left) == <<>>

\* parseStructuredDiff called after a call that left `files` as given
ParseStructuredDiffAfter(left, lines) ==
  LET st == ParseLines([ParseStart EXCEPT !.files = NewArray(left)], lines)
  IN [threw |-> st.threw,
      files |-> IF st.threw THEN <<>> ELSE st.files \o st.currentFile]

-----------------------------------------------------------------------------
(* DiffAnalyzer.getGeneratedDiff and the readers of its summary *)

\* parseInt of a run of digits
ParseInt(d) == CASE d = "0" -> 0 [] d = "1" -> 1 [] d = "2" -> 2 [] d = "3" -> 3

\* String.prototype.trim on a text given as its lines: the empty lines at both
\* ends go, and the blank that opens the first line left
RECURSIVE DropEmptyHead(_)
DropEmptyHead(lines) ==
  IF lines # <<>> /\ Head(lines) = <<>> THEN DropEmptyHead(Tail(lines)) ELSE lines

RECURSIVE DropEmptyLast(_)
DropEmptyLast(lines) ==
  IF lines # <<>> /\ lines[Len(lines)] = <<>>
  THEN DropEmptyLast(SubSeq(lines, 1, Len(lines) - 1)) ELSE lines

Trim(lines) ==
  LET inner == DropEmptyLast(DropEmptyHead(lines))
  IN IF inner = <<>> THEN << <<>> >>
     ELSE IF Head(inner)[1] = " " THEN <<Tail(Head(inner))>> \o Tail(inner)
     ELSE inner

\* /(\d+) files? changed(?:, (\d+) insertions?\(\+\))?(?:, (\d+) deletions?\(-\))?/ :
\* the places <<line, atom>> of the text where a number stands before ' files changed'
SummaryMatches(lines) ==
  UNION {{<<l, k>> : k \in {j \in 1..(Len(lines[l]) - 1) :
                              /\ lines[l][j] \in {"0", "1", "2", "3"}
                              /\ lines[l][j + 1] = " files changed"}}
         : l \in 1..Len(lines)}

\* DiffAnalyzer.parseDiffSummary: the first match of the text; the checked texts
\* hold no insertion or deletion count
DiffSummary(lines) ==
  LET found == SummaryMatches(lines)
  IN IF found = {} THEN [filesChanged |-> 0, insertions |-> 0, deletions |-> 0]
     ELSE LET m == CHOOSE x \in found :
                     \A y \in found : x[1] < y[1] \/ (x[1] = y[1] /\ x[2] <= y[2])
          IN [filesChanged |-> ParseInt(lines[m[1]][m[2]]), insertions |-> 0, deletions |-> 0]

FallbackDiffAnalysis ==
  [rawDiff |-> << <<"Git diff unavailable - using file comparison">> >>,
   summary |-> [filesChanged |-> 0, insertions |-> 0, deletions |-> 0],
   structuredDiff |-> [files |-> <<>>]]

\* output: <<the lines git diff printed>>, or <<>> when execSync throws
GetGeneratedDiff(output) ==
  IF output = <<>> THEN FallbackDiffAnalysis
  ELSE LET text == Trim(output[1])
           parsed == ParseStructuredDiff(text)
       IN IF parsed.threw THEN FallbackDiffAnalysis
          ELSE [rawDiff |-> text,
                summary |-> DiffSummary(text),
                structuredDiff |-> [files |-> parsed.files]]

\* SDKUpdater.run: the number in the line 'Diff analysis: N files changed'
LoggedFilesChanged(d) == d.summary.filesChanged

\* LLMAnalyzer.formatDiffSummary: the number after 'Files changed: ' of the prompt
FormatDiffSummary(d) ==
  IF ~Has(d, "summary") THEN <<>> ELSE <<d.summary.filesChanged>>

\* LLMAnalyzer.getFallbackAnalysis: the number before ' files modified'
FallbackFilesModified(d) ==
  IF ~Has(d, "summary") THEN <<>> ELSE <<d.summary.filesChanged>>

-----------------------------------------------------------------------------
(* Paths of the checked runs *)

Ts(name) == <<name, ".", "ts">>
Join(dir, file) == dir \o <<"/">> \o file
GeneratedDir == <<"src", "/", "generated">>
ClientDir == <<"src", "/", "client">>

\* The lines `git status --porcelain` can print, in git's order (by path):
\* the status code, trimmed, and the path
StatusLines ==
  << [code |-> "??", path |-> Join(ClientDir, <<"index", ".", "js">>)],
     [code |-> "A", path |-> Join(Join(GeneratedDir, <<"apis">>), Ts("UsersMainApi"))],
     [code |-> "M", path |-> Join(GeneratedDir, <<"index", ".", "js">>)],
     [code |-> "M", path |-> Join(Join(GeneratedDir, <<"models">>),
                                  Ts("UserAnalyticsResponseModel"))] >>

\* execSync('git status --porcelain') on working tree t
StatusOutput(t) == SelectSeq(StatusLines, LAMBDA l : l \in t)

\* execSync('git diff --name-status src/generated/'): the tracked, modified
\* files under the generated directory
DiffNameStatus(t) ==
  SelectSeq(StatusOutput(t),
            LAMBDA l : l.code = "M" /\ StartsWith(l.path, GeneratedDir \o <<"/">>))

-----------------------------------------------------------------------------
(* ChangeAnalyzer.getGitChanges *)

InterpretGitStatus(status) ==
  CASE status = "A" -> "added"
    [] status = "M" -> "modified"
    [] status = "D" -> "deleted"
    [] status = "R" -> "renamed"
    [] status = "C" -> "copied"
    [] status = "??" -> "untracked"
    [] OTHER -> "unknown"

ParseGitStatus(statusOutput) ==
  [i \in 1..Len(statusOutput) |->
     [status |-> InterpretGitStatus(statusOutput[i].code),
      path |-> statusOutput[i].path,
      rawStatus |-> statusOutput[i].code]]

GroupFilesByStatus(files) ==
  [st \in {files[i].status : i \in 1..Len(files)} |->
     LET of == SelectSeq(files, LAMBDA f : f.status = st)
     IN [i \in 1..Len(of) |-> of[i].path]]

ParseDiffSummary(lines) ==
  [filesChanged |-> Len(lines),
   changes |-> [i \in 1..Len(lines) |-> [status |-> lines[i].code, file |-> lines[i].path]]]

UnderGenerated(f) == Includes(f.path, <<"generated", "/">>)
UnderClient(f) == Includes(f.path, <<"client", "/">>)

GeneratedFiles(files) == SelectSeq(files, UnderGenerated)

GetGitChanges(g, t) ==
  IF g = "down" THEN [totalFiles |-> 0, error |-> "git status failed"]
  ELSE LET files == ParseGitStatus(StatusOutput(t))
           diffLines == IF g = "nodiff" THEN <<>> ELSE DiffNameStatus(t)
       IN [totalFiles |-> Len(files),
           filesByStatus |-> GroupFilesByStatus(files),
           generatedFiles |-> GeneratedFiles(files),
           clientFiles |-> SelectSeq(files, UnderClient),
           otherFiles |-> SelectSeq(files, LAMBDA f : ~UnderGenerated(f) /\ ~UnderClient(f)),
           diffSummary |-> ParseDiffSummary(diffLines)]

-----------------------------------------------------------------------------
(* Source text.  A file's text is the import statements and the function   *)
(* and method declarations in it, each list in the order of the text.      *)

Import(form, types, path) == [form |-> form, types |-> types, path |-> path]
Member(kind, async, name, promise) ==
  [kind |-> kind, async |-> async, name |-> name, promise |-> promise]

\* /async\s+(\w+)\s*\([^)]*\):\s*Promise<([^>]+)>/ : `async name(...): Promise<T>`;
\* in `async function name(...)` the \w+ takes `function`, and no `(` follows
MethodRegex(m) == m.async /\ m.kind = "method" /\ m.promise # <<>>

\* ChangeAnalyzer.extractEndpoints
ExtractEndpoints(content) ==
  LET found == SelectSeq(content.members, MethodRegex)
  IN [i \in 1..Len(found) |-> [method |-> found[i].name, type |-> "api-method"]]

\* extractEndpoints called after a call that left `endpoints` as given: the
\* regular expression is a literal of the call too, its lastIndex 0
ExtractEndpointsAfter(left, content) == NewArray(left) \o ExtractEndpoints(content)

\* The files generated/apis can hold
ApiNames == {Ts("UsersMainApi"), Ts("QuestionsMainApi"), <<"README", ".", "md">>}

ApiContent(file) ==
  IF file = Ts("UsersMainApi") THEN
    [imports |-> <<>>,
     members |-> <<Member("method", TRUE, "getUserAnalytics", <<"UserAnalyticsResponseModel">>)>>]
  ELSE IF file = Ts("QuestionsMainApi") THEN
    [imports |-> <<>>,
     members |-> <<Member("method", TRUE, "getAllQuestions", <<"QuestionResponseModel[]">>),
                   Member("method", FALSE, "basePath", <<>>),
                   Member("method", TRUE, "createQuestion", <<"QuestionResponseModel">>),
                   Member("method", TRUE, "getUserAnalytics", <<"UserAnalyticsResponseModel">>)>>]
  ELSE [imports |-> <<>>, members |-> <<>>]

ModelListing == <<Ts("UserAnalyticsResponseModel"), <<"index", ".", "js">>>>

\* The files src/client can hold: users.ts and questions.ts as in the repository,
\* answers.ts with five import statements from generated code, bulk.ts with one
\* statement of five names, a namespace import and a named import from
\* '../../generated/index.js', and a test file
WrapperNames ==
  {Ts("answers"), Ts("bulk"), Ts("questions"), Ts("users"), <<"users", ".", "test", ".", "ts">>}

Generated(rest) == <<"..", "/", "generated">> \o rest

WrapperContent(file) ==
  IF file = Ts("users") THEN
    [imports |-> <<Import("named", <<"BaseClient">>, <<".", "/", "shared">>),
                   Import("named", <<"UsersMainApi", "UserAnalyticsResponseModel">>,
                          Generated(<<"/", "index", ".", "js">>)),
                   Import("named", <<"BaseClient">>, <<".", "/", "shared">>),
                   Import("named", <<"QuestionsMainApi">>,
                          Generated(<<"/", "index", ".", "js">>))>>,
     members |-> <<Member("function", TRUE, "fetchUserAnalytics", <<"UserAnalyticsResponseModel">>),
                   Member("function", TRUE, "fetchAllQuestions", <<"QuestionResponseModel[]">>)>>]
  ELSE IF file = Ts("questions") THEN
    [imports |-> <<Import("named", <<"BaseClient">>, <<".", "/", "shared", "/", "base">>),
                   Import("named", <<"QuestionsMain2123121312312321Api">>,
                          <<"..", "/", "apis", "/", "QuestionsMain2123121312312321Api">>),
                   Import("named", <<"Question", "NewQuestion">>,
                          <<".", "/", "shared", "/", "types">>)>>,
     members |-> <<Member("method", TRUE, "fetchQuestions", <<"Question[]">>),
                   Member("method", TRUE, "submitQuestion", <<"Question">>)>>]
  ELSE IF file = Ts("answers") THEN
    [imports |-> <<Import("named", <<"UserAnalyticsResponseModel">>,
                          Generated(<<"/", "models", "/", "UserAnalyticsResponseModel">>)),
                   Import("named", <<"AnswerModel">>, Generated(<<"/", "models">>)),
                   Import("named", <<"UsersMainApi">>,
                          Generated(<<"/", "apis", "/", "UsersMainApi">>)),
                   Import("named", <<"AnswersMainApi">>, Generated(<<"/", "apis">>)),
                   Import("named", <<"createConfiguration">>,
                          Generated(<<"/", "index", ".", "js">>))>>,
     members |-> <<Member("method", TRUE, "fetchAnswers", <<"AnswerModel[]">>)>>]
  ELSE IF file = Ts("bulk") THEN
    [imports |-> <<Import("default", <<"sdk">>, Generated(<<"/", "index", ".", "js">>)),
                   Import("named", <<"A", "B", "C", "D", "E">>,
                          Generated(<<"/", "index", ".", "js">>)),
                   Import("namespace", <<"models">>, Generated(<<"/", "models">>)),
                   Import("named", <<"F">>,
                          <<"..", "/">> \o Generated(<<"/", "index", ".", "js">>))>>,
     members |-> <<>>]
  ELSE
    [imports |-> <<Import("named", <<"UsersMainApi">>, Generated(<<"/", "index", ".", "js">>))>>,
     members |-> <<>>]

\* The sequences without repetition of at most n elements of S
Listings(S, n) ==
  {l \in UNION {[1..k -> S] : k \in 0..n} : \A i, j \in 1..Len(l) : i # j => l[i] # l[j]}

IsTs(f) == EndsWith(f, <<".", "ts">>)

-----------------------------------------------------------------------------
(* ChangeAnalyzer.analyzeGeneratedChanges *)

\* The loop over analysis.apiFiles: a read that fails throws out of the loop
RECURSIVE ReadEndpoints(_, _)
ReadEndpoints(files, unreadable) ==
  IF files = <<>> \/ Head(files) \in unreadable THEN <<>>
  ELSE ExtractEndpoints(ApiContent(Head(files))) \o ReadEndpoints(Tail(files), unreadable)

\* apis, models: <<the readdir listing>>, or <<>> when readdir fails
AnalyzeGeneratedChanges(exists, apis, unreadable, models) ==
  IF ~exists THEN [error |-> "Generated directory not found"]
  ELSE LET apiFiles == IF apis = <<>> THEN <<>> ELSE SelectSeq(apis[1], IsTs)
       IN [apiFiles |-> apiFiles,
           modelFiles |-> IF models = <<>> THEN <<>> ELSE SelectSeq(models[1], IsTs),
           configFiles |-> <<>>,
           newEndpoints |-> ReadEndpoints(apiFiles, unreadable),
           removedEndpoints |-> <<>>,
           modifiedEndpoints |-> <<>>]

-----------------------------------------------------------------------------
(* ChangeAnalyzer.analyzeClientFile *)

\* /import\s+{([^}]+)}\s+from\s+['"](\.\.\/generated[^'"]*)['"]/g
ImportRegex(stmt) == stmt.form = "named" /\ StartsWith(stmt.path, <<"..", "/", "generated">>)

\* One record per imported name, not per statement
RECURSIVE PerName(_)
PerName(found) ==
  IF found = <<>> THEN <<>>
  ELSE [i \in 1..Len(Head(found).types) |->
          [path |-> Head(found).path, types |-> <<Head(found).types[i]>>]]
       \o PerName(Tail(found))

ExtractImportsPerName(content) == PerName(SelectSeq(content.imports, ImportRegex))

ExtractImports(content) ==
  LET found == SelectSeq(content.imports, ImportRegex)
  IN [i \in 1..Len(found) |-> [path |-> found[i].path, types |-> found[i].types]]

ExtractMethods(content) ==
  LET found == SelectSeq(content.members, MethodRegex)
  IN [i \in 1..Len(found) |-> [name |-> found[i].name, returnType |-> found[i].promise[1]]]

\* changedGeneratedFiles.some(change => change.path.includes(imp.path.replace('../generated/', '')))
IsAffected(imp, changedGeneratedFiles) ==
  \E i \in 1..Len(changedGeneratedFiles) :
    Includes(changedGeneratedFiles[i].path,
             Replace(imp.path, <<"..", "/", "generated", "/">>, <<>>))

ImportRiskStrict(affected) ==
  IF affected > 5 THEN "HIGH"
  ELSE IF affected >= 2 THEN "MEDIUM"
  ELSE "LOW"

ImportRisk(affected) ==
  IF affected >= 5 THEN "HIGH"
  ELSE IF affected >= 2 THEN "MEDIUM"
  ELSE "LOW"

AnalyzeClientFile(filePath, content, gitChanges) ==
  LET imports == ExtractImports(content)
      changedGeneratedFiles ==
        IF Has(gitChanges, "generatedFiles") THEN gitChanges.generatedFiles ELSE <<>>
      affectedImports == SelectSeq(imports, LAMBDA imp : IsAffected(imp, changedGeneratedFiles))
  IN [file |-> filePath,
      affectedImports |-> affectedImports,
      imports |-> imports,
      methods |-> ExtractMethods(content),
      riskLevel |-> ImportRisk(Len(affectedImports))]

-----------------------------------------------------------------------------
(* ChangeAnalyzer.analyzeWrapperImpact *)

\* clientFiles.filter(f => f.endsWith('.ts') && !f.includes('.test.'))
TsFiles(clientFiles) ==
  SelectSeq(clientFiles, LAMBDA f : IsTs(f) /\ ~Includes(f, <<".", "test", ".">>))

\* The overall risk level of the impact
OverallRisk(affectedClients) ==
  IF affectedClients = <<>> THEN "LOW"
  ELSE IF \E i \in 1..Len(affectedClients) : affectedClients[i].riskLevel = "HIGH" THEN "HIGH"
  ELSE "MEDIUM"

-----------------------------------------------------------------------------
(* States in which an operation is not in use *)

RiskIdle == riskIn = <<>> /\ riskOut = <<>>
DiffIdle == diffOutput = <<>> /\ structuredDiff = <<>> /\ diffData = <<>>
RunIdle ==
  /\ git = "unused" /\ tree = {} /\ disk = <<>> /\ pc = "unused"
  /\ analysis = <<>> /\ tsFiles = <<>> /\ impact = <<>> /\ clientAnalyses = <<>>
  /\ failed = {} /\ failedFiles = {} /\ pr = <<>>
AgainIdle == again = <<>> /\ upd = <<>>
LaterIdle ==
  /\ highlights = <<>>
  /\ llm = <<>>
  /\ wrapper = <<>>
  /\ basic = <<>>
  /\ prAuto = <<>>
  /\ flow = <<>>
  /\ meta = <<>>

-----------------------------------------------------------------------------
(* SpecRisk: assessRisk applied to every triple of counts within the bounds *)

InitRisk ==
  /\ \E n \in 0..MaxTotalFiles, c \in 0..MaxAffected, g \in 0..MaxGenerated :
       riskIn = <<AnalysisWith(n, c, g)>>
  /\ riskOut = <<>>
  /\ DiffIdle /\ RunIdle /\ AgainIdle /\ LaterIdle

CallAssessRisk ==
  /\ riskIn # <<>> /\ riskOut = <<>>
  /\ riskOut' = <<AssessRisk(riskIn[1])>>
  /\ UNCHANGED <<highlights, llm, wrapper, basic, prAuto, flow, meta, upd, again, pr, failedFiles, diffData, riskIn, diffOutput, structuredDiff, git, tree, disk, pc,
                 analysis, tsFiles, impact, clientAnalyses, failed>>

NextRisk == CallAssessRisk

SpecRisk == InitRisk /\ [][NextRisk]_vars

-----------------------------------------------------------------------------
(* SpecDiff: parseStructuredDiff applied to every text of at most MaxLines *)
(* lines drawn from DiffLines                                              *)

FileHeader(a, b) == <<"diff --git", " a/">> \o a \o <<" b/">> \o b
HunkHeader(old, new) == <<"@@", " -", "1", ",", old, " +", "1", ",", new, " @@">>

DiffLines ==
  { FileHeader(<<"x", ".", "ts">>, <<"x", ".", "ts">>),
    FileHeader(<<"x", ".", "ts">>, <<"y", ".", "ts">>),
    <<"diff --git", " garbled">>,
    <<"new file mode", " 100644">>,
    <<"deleted file mode", " 100644">>,
    HunkHeader("1", "1"),
    HunkHeader("0", "1"),
    <<"+", "a">>,
    <<"-", "a">>,
    <<" ", "a">>,
    <<>> }

\* diffOutput.split('\n'): at least one line, the empty text being one empty line
DiffTexts == UNION {[1..n -> DiffLines] : n \in 1..MaxLines}

InitDiff ==
  /\ diffOutput \in DiffTexts
  /\ structuredDiff = <<>>
  /\ diffData = <<>>
  /\ RiskIdle /\ RunIdle /\ AgainIdle /\ LaterIdle

CallParseStructuredDiff ==
  /\ diffOutput # <<>> /\ structuredDiff = <<>>
  /\ structuredDiff' = <<ParseStructuredDiff(diffOutput)>>
  /\ UNCHANGED <<highlights, llm, wrapper, basic, prAuto, flow, meta, upd, again, pr, failedFiles, diffData, riskIn, riskOut, diffOutput, git, tree, disk, pc,
                 analysis, tsFiles, impact, clientAnalyses, failed>>

NextDiff == CallParseStructuredDiff

SpecDiff == InitDiff /\ [][NextDiff]_vars

-----------------------------------------------------------------------------
(* SpecGeneratedDiff: getGeneratedDiff on every output of git diff of at   *)
(* most MaxLines lines, a line being one of DiffLines or a summary line    *)

SummaryLine(n) == <<" ", n, " files changed">>

GitDiffOutputs == UNION {[1..n -> DiffLines \cup {SummaryLine("2")}] : n \in 1..MaxLines}

InitGeneratedDiff ==
  /\ diffOutput \in GitDiffOutputs
  /\ structuredDiff = <<>>
  /\ diffData = <<>>
  /\ RiskIdle /\ RunIdle /\ AgainIdle /\ LaterIdle

\* const diffData = await this.diffAnalyzer.getGeneratedDiff(): git diff prints
\* diffOutput, or execSync throws
CallGetGeneratedDiff ==
  /\ diffOutput # <<>> /\ diffData = <<>>
  /\ \/ diffData' = <<GetGeneratedDiff(<<diffOutput>>)>>
     \/ diffData' = <<GetGeneratedDiff(<<>>)>>
  /\ UNCHANGED <<highlights, llm, wrapper, basic, prAuto, flow, meta, riskIn, riskOut, diffOutput, structuredDiff, git, tree, disk, pc,
                 analysis, tsFiles, impact, clientAnalyses, failed, failedFiles, pr, again,
                 upd>>

NextGeneratedDiff == CallGetGeneratedDiff

SpecGeneratedDiff == InitGeneratedDiff /\ [][NextGeneratedDiff]_vars

-----------------------------------------------------------------------------
(* SpecRepeat: parseStructuredDiff called up to MaxCalls times on one text *)
(* of at most MaxRepeatLines lines, and extractEndpoints up to MaxCalls    *)
(* times on one source text                                                *)

Sources == {ApiContent(f) : f \in ApiNames}

RepeatTexts == UNION {[1..n -> DiffLines] : n \in 1..MaxRepeatLines}

InitRepeat ==
  /\ \E text \in RepeatTexts, content \in Sources :
       again = [text |-> text, content |-> content, parsed |-> <<>>, endpoints |-> <<>>]
  /\ upd = <<>>
  /\ RiskIdle /\ DiffIdle /\ RunIdle /\ LaterIdle

Last(results, initial) == IF results = <<>> THEN initial ELSE results[Len(results)]

CallParseAgain ==
  /\ Len(again.parsed) < MaxCalls
  /\ again' = [again EXCEPT !.parsed =
                 Append(@, ParseStructuredDiffAfter(Last(@, [files |-> <<>>]).files, again.text))]
  /\ UNCHANGED <<highlights, llm, wrapper, basic, prAuto, flow, meta, riskIn, riskOut, diffOutput, structuredDiff, diffData, git, tree, disk, pc,
                 analysis, tsFiles, impact, clientAnalyses, failed, failedFiles, pr, upd>>

CallExtractAgain ==
  /\ Len(again.endpoints) < MaxCalls
  /\ again' = [again EXCEPT !.endpoints =
                 Append(@, ExtractEndpointsAfter(Last(@, <<>>), again.content))]
  /\ UNCHANGED <<highlights, llm, wrapper, basic, prAuto, flow, meta, riskIn, riskOut, diffOutput, structuredDiff, diffData, git, tree, disk, pc,
                 analysis, tsFiles, impact, clientAnalyses, failed, failedFiles, pr, upd>>

NextRepeat == CallParseAgain \/ CallExtractAgain

SpecRepeat == InitRepeat /\ [][NextRepeat]_vars

-----------------------------------------------------------------------------
(* SpecClients: analyzeClientFile applied to the files of a listing of at  *)
(* most MaxClientFiles wrapper files, one after the other, each file read  *)

InitClients ==
  /\ git \in {"ok", "nodiff", "down"}
  /\ tree \in SUBSET {StatusLines[i] : i \in 1..Len(StatusLines)}
  /\ tsFiles \in {TsFiles(l) : l \in Listings(WrapperNames, MaxClientFiles)}
  /\ clientAnalyses = <<>>
  /\ disk = <<>> /\ pc = "unused" /\ analysis = <<>> /\ impact = <<>>
  /\ failed = {} /\ failedFiles = {} /\ pr = <<>>
  /\ RiskIdle /\ DiffIdle /\ AgainIdle /\ LaterIdle

\* const clientAnalysis = await this.analyzeClientFile(filePath, content)
CallAnalyzeClientFile ==
  /\ Len(clientAnalyses) < Len(tsFiles)
  /\ LET file == tsFiles[Len(clientAnalyses) + 1]
     IN clientAnalyses' =
          Append(clientAnalyses,
                 AnalyzeClientFile(Join(ClientDir, file), WrapperContent(file),
                                   GetGitChanges(git, tree)))
  /\ UNCHANGED <<highlights, llm, wrapper, basic, prAuto, flow, meta, riskIn, riskOut, diffOutput, structuredDiff, diffData, git, tree, disk, pc,
                 analysis, tsFiles, impact, failed, failedFiles, pr, again, upd>>

NextClients == CallAnalyzeClientFile

SpecClients == InitClients /\ [][NextClients]_vars

-----------------------------------------------------------------------------
(* SpecSnapshot: the loop of analyzeWrapperImpact after analyzeChanges put *)
(* gitChanges into its report, with another process changing the working   *)
(* tree between two turns of the loop                                      *)

InitSnapshot ==
  /\ git \in {"ok", "nodiff", "down"}
  /\ tree \in SUBSET {StatusLines[i] : i \in 1..Len(StatusLines)}
  /\ tsFiles \in {TsFiles(l) : l \in Listings(WrapperNames, MaxClientFiles)}
  /\ analysis = [gitChanges |-> GetGitChanges(git, tree)]
  /\ clientAnalyses = <<>>
  /\ disk = <<>> /\ pc = "unused" /\ impact = <<>>
  /\ failed = {} /\ failedFiles = {} /\ pr = <<>>
  /\ RiskIdle /\ DiffIdle /\ AgainIdle /\ LaterIdle

\* Another process adds, edits, restores or removes files of the working tree
\* while the loop runs: git status reports another set of changed files
ModifyWorkingTree ==
  /\ Len(clientAnalyses) < Len(tsFiles)
  /\ \E t \in SUBSET {StatusLines[i] : i \in 1..Len(StatusLines)} :
       /\ t # tree
       /\ tree' = t
  /\ UNCHANGED <<highlights, llm, wrapper, basic, prAuto, flow, meta, riskIn, riskOut, diffOutput,
                 structuredDiff, diffData, git, disk, pc, analysis, tsFiles, impact,
                 clientAnalyses, failed, failedFiles, pr, again, upd>>

NextSnapshot ==
  \/ CallAnalyzeClientFile
  \/ ModifyWorkingTree

SpecSnapshot == InitSnapshot /\ [][NextSnapshot]_vars

-----------------------------------------------------------------------------
(* SpecUpdater: up to MaxRuns runs of SDKUpdater.run, one after the other, *)
(* over the OpenAPI file and automation-metadata.json                      *)

\* The contents the OpenAPI file can have, and their sha256 digests
SpecContents == {"v1", "v2"}
Sha256(content) == CASE content = "v1" -> "h1" [] content = "v2" -> "h2"

\* OpenAPIGenerator.checkForChanges on the OpenAPI file and the metadata file
\* (lastHash, "none" for null or no file); readable: fs.readFile of the OpenAPI
\* file succeeds; writable: fs.writeFile of the metadata file succeeds
CheckForChanges(content, lastHash, readable, writable) ==
  IF ~readable THEN [outcome |-> "threw", lastHash |-> lastHash]
  ELSE IF lastHash = Sha256(content) THEN [outcome |-> "false", lastHash |-> lastHash]
  ELSE IF ~writable THEN [outcome |-> "threw", lastHash |-> lastHash]
  ELSE [outcome |-> "true", lastHash |-> Sha256(content)]

\* The .ts files src/generated can hold, as captureGeneratedState lists them:
\* none, index.ts, or index.ts with other content
GeneratedFile(hash) == [path |-> "index.ts", hash |-> hash]
GeneratedStates == {<<>>, <<GeneratedFile("g1")>>, <<GeneratedFile("g2")>>}

\* OpenAPIGenerator.captureGeneratedState at time `now`; scanned: no readdir or
\* readFile of the scan fails (when one does, the catch returns no files)
CaptureGeneratedState(files, scanned, now) ==
  [files |-> IF scanned THEN files ELSE <<>>, timestamp |-> now]

\* JSON.stringify of a captured state: its keys and values in order
JsonStringify(state) == <<"files", state.files, "timestamp", state.timestamp>>

\* What OpenAPIGenerator.generateSDK returns when the generation command ran
GenerateSDK(beforeGeneration, afterGeneration) ==
  [before |-> beforeGeneration, after |-> afterGeneration,
   hasChanges |-> JsonStringify(beforeGeneration) # JsonStringify(afterGeneration)]

\* SDKUpdater.createResult
CreateResult(data) == [timestamp |-> "now", success |-> TRUE] @@ data

\* GitHubIntegration.createBranchAndCommit: its git commands, in order
BranchCommands == <<"checkout", "pull", "checkout -b", "add", "status">>
CommitCommands == <<"commit", "push">>

\* The catch of SDKUpdater.run: switchToDefaultBranch runs git checkout, and
\* the error is thrown on
Thrown(u, commands) ==
  [u EXCEPT !.at = "threw", !.gitOps = @ \o commands \o <<"checkout">>]

Returned(u, data) == [u EXCEPT !.at = "returned", !.result = <<CreateResult(data)>>]

InitUpdater ==
  /\ \E dryRun \in BOOLEAN, skipPR \in BOOLEAN, content \in SpecContents,
        lastHash \in {"none", "h1"}, generated \in GeneratedStates :
       upd = [dryRun |-> dryRun, skipPR |-> skipPR, content |-> content,
              lastHash |-> lastHash, at |-> "idle", runs |-> 0,
              checked |-> <<>>, analysed |-> FALSE, gitOps |-> <<>>, prCreated |-> FALSE,
              result |-> <<>>, before |-> <<>>, generated |-> generated,
              generation |-> <<>>]
  /\ again = <<>>
  /\ RiskIdle /\ DiffIdle /\ RunIdle /\ LaterIdle

UpdaterFrame ==
  UNCHANGED <<highlights, llm, wrapper, basic, prAuto, flow, meta, riskIn, riskOut, diffOutput, structuredDiff, diffData, git, tree, disk, pc,
              analysis, tsFiles, impact, clientAnalyses, failed, failedFiles, pr, again>>

\* The OpenAPI file is edited between two runs
EditSpec ==
  /\ upd.at \in {"idle", "returned", "threw"}
  /\ \E content \in SpecContents \ {upd.content} : upd' = [upd EXCEPT !.content = content]
  /\ UpdaterFrame

\* run() is called, in a new process: validateConfig passes, or throws into the catch
StartRun ==
  /\ upd.at \in {"idle", "returned", "threw"}
  /\ upd.runs < MaxRuns
  /\ LET started ==
           [upd EXCEPT !.runs = @ + 1, !.checked = <<>>, !.analysed = FALSE,
                       !.gitOps = <<>>, !.prCreated = FALSE, !.result = <<>>,
                       !.generation = <<>>,
                       !.before = IF upd.runs = 0 THEN <<>>
                                  ELSE <<[detected |-> upd.checked = <<"true">>,
                                          threw |-> upd.at = "threw",
                                          content |-> upd.content]>>]
     IN \/ upd' = [started EXCEPT !.at = "check"]
        \/ upd' = Thrown(started, <<>>)
  /\ UpdaterFrame

\* Step 1: const hasSpecChanges = await this.generator.checkForChanges()
StepCheck ==
  /\ upd.at = "check"
  /\ \E readable \in BOOLEAN, writable \in BOOLEAN :
       LET c == CheckForChanges(upd.content, upd.lastHash, readable, writable)
           u == [upd EXCEPT !.lastHash = c.lastHash]
       IN upd' = CASE c.outcome = "threw" -> Thrown(u, <<>>)
                   [] c.outcome = "false" ->
                        Returned([u EXCEPT !.checked = <<"false">>],
                                 [updated |-> FALSE, reason |-> "no-changes"])
                   [] c.outcome = "true" -> [u EXCEPT !.checked = <<"true">>, !.at = "generate"]
  /\ UpdaterFrame

\* Step 2: generateSDK.  The generation command fails and generateSDK throws;
\* or it leaves src/generated with one of GeneratedStates, the state is
\* captured before it and, at a later time, after it, and run returns
\* 'no-code-changes' when hasChanges is false
StepGenerate ==
  /\ upd.at = "generate"
  /\ \/ upd' = Thrown(upd, <<>>)
     \/ \E files \in GeneratedStates, scannedBefore \in BOOLEAN, scannedAfter \in BOOLEAN :
          LET now == 2 * upd.runs
              g == GenerateSDK(CaptureGeneratedState(upd.generated, scannedBefore, now),
                               CaptureGeneratedState(files, scannedAfter, now + 1))
              u == [upd EXCEPT !.generated = files, !.generation = <<g>>]
          IN upd' = IF ~g.hasChanges
                    THEN Returned(u, [updated |-> FALSE, reason |-> "no-code-changes"])
                    ELSE [u EXCEPT !.at = "analyse"]
  /\ UpdaterFrame

\* Steps 3 to 5: the diff, the wrapper context and the analysis of the LLM,
\* which returns an analysis or throws
StepAnalyse ==
  /\ upd.at = "analyse"
  /\ \/ upd' = Thrown(upd, <<>>)
     \/ upd' = [upd EXCEPT !.at = "git", !.analysed = TRUE]
  /\ UpdaterFrame

\* Step 6 with dryRun unset: createBranchAndCommit runs its git commands; one
\* of them fails, or git status prints nothing and it returns null, or it
\* commits and pushes.  With dryRun set: this.saveLocalInstructions(analysis),
\* which SDKUpdater does not define, so that the call throws a TypeError.
StepGit ==
  /\ upd.at = "git"
  /\ IF upd.dryRun
     THEN upd' = Thrown(upd, <<>>)
     ELSE \/ \E n \in 1..Len(BranchCommands) :
               upd' = Thrown(upd, SubSeq(BranchCommands, 1, n))
          \/ \E n \in 1..Len(CommitCommands) :
               upd' = Thrown(upd, BranchCommands \o SubSeq(CommitCommands, 1, n))
          \/ upd' = Returned([upd EXCEPT !.gitOps = BranchCommands],
                             [updated |-> TRUE, reason |-> "no-git-changes"])
          \/ LET done == [upd EXCEPT !.gitOps = BranchCommands \o CommitCommands]
             IN upd' = IF upd.skipPR
                       THEN Returned(done, [updated |-> TRUE, pullRequest |-> "null"])
                       ELSE [done EXCEPT !.at = "pr"]
  /\ UpdaterFrame

\* createPullRequest returns {success: true, ...}, or catches its error and
\* returns {success: false, ...}
StepPullRequest ==
  /\ upd.at = "pr"
  /\ \E success \in BOOLEAN :
       upd' = Returned([upd EXCEPT !.prCreated = success],
                       [updated |-> TRUE,
                        pullRequest |-> IF success THEN "created" ELSE "failed"])
  /\ UpdaterFrame

NextUpdater ==
  \/ EditSpec
  \/ StartRun
  \/ StepCheck
  \/ StepGenerate
  \/ StepAnalyse
  \/ StepGit
  \/ StepPullRequest

SpecUpdater == InitUpdater /\ [][NextUpdater]_vars

-----------------------------------------------------------------------------
(* SpecCheck: up to MaxCalls calls of checkForChanges, of OpenAPIGenerator *)
(* or of BasicSDKUpdater, over the OpenAPI file and the metadata file.     *)
(* A metadata file that is there is read; the read of the OpenAPI file and *)
(* the writes can fail.                                                    *)

Updaters == {"OpenAPIGenerator", "BasicSDKUpdater"}

\* The metadata file: not there, there with text JSON.parse rejects, or there
\* with an object; "null" is null, time 0 is a time before the first call
NoMetadata ==
  [state |-> "absent", lastHash |-> "null", previousHash |-> "null",
   lastUpdate |-> 0, lastCheck |-> 0, lastError |-> FALSE]

Unparsable == [NoMetadata EXCEPT !.state = "text"]

Stored(lastHash) == [NoMetadata EXCEPT !.state = "json", !.lastHash = lastHash]

\* let metadata = { lastHash: null }; try { metadata = JSON.parse(...) } catch
ReadMetadata(file) == IF file.state = "json" THEN file ELSE NoMetadata

\* const newMetadata = { lastHash, previousHash: metadata.lastHash, ... },
\* with previousHash the hash just computed instead
NewMetadataSameHash(updater, hash, metadata, now) ==
  [state |-> "json", lastHash |-> hash, previousHash |-> hash,
   lastUpdate |-> now, lastCheck |-> IF updater = "BasicSDKUpdater" THEN now ELSE 0,
   lastError |-> FALSE]

\* const newMetadata = { lastHash, previousHash: metadata.lastHash, ... }
NewMetadata(updater, hash, metadata, now) ==
  [state |-> "json", lastHash |-> hash, previousHash |-> metadata.lastHash,
   lastUpdate |-> now, lastCheck |-> IF updater = "BasicSDKUpdater" THEN now ELSE 0,
   lastError |-> FALSE]

\* The catch of BasicSDKUpdater.checkForChanges: lastCheck and lastError are
\* written into the metadata that is there, when that write goes through
NoteError(updater, file, noted, now) ==
  IF updater = "BasicSDKUpdater" /\ file.state = "json" /\ noted
  THEN [file EXCEPT !.lastCheck = now, !.lastError = TRUE]
  ELSE file

\* checkForChanges at time `now`.  readable: the OpenAPI file is read;
\* copyable: BasicSDKUpdater's write of ./openapi.json goes through; writable:
\* the write of the metadata file goes through; noted: the write in the catch
\* goes through
CheckForChangesOn(updater, content, file, readable, copyable, writable, noted, now) ==
  LET metadata == ReadMetadata(file)
      threw == [outcome |-> "threw", hash |-> "null",
                file |-> NoteError(updater, file, noted, now)]
  IN IF ~readable THEN threw
     ELSE IF metadata.lastHash = Sha256(content)
     THEN [outcome |-> "false", hash |-> Sha256(content), file |-> file]
     ELSE IF updater = "BasicSDKUpdater" /\ ~copyable THEN threw
     ELSE IF ~writable THEN threw
     ELSE [outcome |-> "true", hash |-> Sha256(content),
           file |-> NewMetadata(updater, Sha256(content), metadata, now)]

InitCheck ==
  /\ \E updater \in Updaters, content \in SpecContents,
        file \in {NoMetadata, Unparsable} \cup {Stored(Sha256(c)) : c \in SpecContents} :
       meta = [updater |-> updater, content |-> content, file |-> file, calls |-> <<>>]
  /\ llm = <<>> /\ wrapper = <<>> /\ basic = <<>> /\ prAuto = <<>> /\ flow = <<>> /\ again = <<>> /\ upd = <<>>
  /\ highlights = <<>>
  /\ RiskIdle /\ DiffIdle /\ RunIdle

\* The OpenAPI file is edited between two calls
EditOpenApi ==
  /\ meta.calls # <<>>
  /\ Len(meta.calls) < MaxCalls
  /\ \E content \in SpecContents \ {meta.content} :
       meta' = [meta EXCEPT !.content = content]
  /\ UNCHANGED <<highlights, llm, wrapper, basic, prAuto, flow, riskIn, riskOut, diffOutput, structuredDiff, diffData, git, tree, disk, pc,
                 analysis, tsFiles, impact, clientAnalyses, failed, failedFiles, pr, again,
                 upd>>

CallCheckForChanges ==
  /\ Len(meta.calls) < MaxCalls
  /\ \E readable \in BOOLEAN, copyable \in BOOLEAN, writable \in BOOLEAN, noted \in BOOLEAN :
       LET now == Len(meta.calls) + 1
           c == CheckForChangesOn(meta.updater, meta.content, meta.file,
                                  readable, copyable, writable, noted, now)
       IN meta' = [meta EXCEPT
                     !.file = c.file,
                     !.calls = Append(@, [outcome |-> c.outcome, hash |-> c.hash,
                                          content |-> meta.content,
                                          before |-> meta.file, after |-> c.file])]
  /\ UNCHANGED <<highlights, llm, wrapper, basic, prAuto, flow, riskIn, riskOut, diffOutput, structuredDiff, diffData, git, tree, disk, pc,
                 analysis, tsFiles, impact, clientAnalyses, failed, failedFiles, pr, again,
                 upd>>

NextCheck ==
  \/ EditOpenApi
  \/ CallCheckForChanges

SpecCheck == InitCheck /\ [][NextCheck]_vars

-----------------------------------------------------------------------------
(* SpecGitFlow: one call of GitIntegration.handleChanges or of             *)
(* GitHubIntegration.createBranchAndCommit, git command by git command,    *)
(* over a working tree with up to MaxFlowFiles changed files              *)

Workflows == {"GitIntegration", "GitHubIntegration"}

\* The git commands of the workflow in the order of the code; "status" is the
\* git status --porcelain whose output decides whether there is anything to
\* commit
HandleCommands == <<"rev-parse", "status", "checkout -b", "add", "commit", "push">>

GitCommands(workflow) ==
  IF workflow = "GitIntegration" THEN HandleCommands ELSE BranchCommands \o CommitCommands

\* The branch git is on after a command that succeeded
BranchAfter(command, branch) ==
  CASE command = "checkout" -> "default"
    [] command = "checkout -b" -> "new"
    [] OTHER -> branch

InitGitFlow ==
  /\ \E workflow \in Workflows, files \in 0..MaxFlowFiles, branch \in {"default", "feature"} :
       flow = [workflow |-> workflow, files |-> files, start |-> branch, branch |-> branch,
               commands |-> <<>>, pushed |-> FALSE, at |-> "running", result |-> "none"]
  /\ llm = <<>> /\ wrapper = <<>> /\ basic = <<>> /\ prAuto = <<>> /\ meta = <<>> /\ again = <<>> /\ upd = <<>>
  /\ highlights = <<>>
  /\ RiskIdle /\ DiffIdle /\ RunIdle

\* The next execSync returns
GitSucceeds ==
  /\ flow.at = "running"
  /\ LET command == GitCommands(flow.workflow)[Len(flow.commands) + 1]
         ran == [flow EXCEPT !.commands = Append(@, command),
                             !.branch = BranchAfter(command, @),
                             !.pushed = @ \/ command = "push"]
     IN flow' = IF command = "status" /\ flow.files = 0
                THEN [ran EXCEPT !.at = "returned", !.result = "null"]
                ELSE IF command = "push"
                THEN [ran EXCEPT !.at = "returned", !.result = "branch"]
                ELSE ran
  /\ UNCHANGED <<highlights, llm, wrapper, basic, prAuto, meta, riskIn, riskOut, diffOutput, structuredDiff, diffData, git, tree, disk, pc,
                 analysis, tsFiles, impact, clientAnalyses, failed, failedFiles, pr, again,
                 upd>>

\* The next execSync throws: the workflow throws, except that handleChanges
\* catches a failed push and returns its result with remoteUrl null
GitFails ==
  /\ flow.at = "running"
  /\ LET command == GitCommands(flow.workflow)[Len(flow.commands) + 1]
         ran == [flow EXCEPT !.commands = Append(@, command)]
     IN flow' = IF command = "push" /\ flow.workflow = "GitIntegration"
                THEN [ran EXCEPT !.at = "returned", !.result = "branch"]
                ELSE [ran EXCEPT !.at = "threw"]
  /\ UNCHANGED <<highlights, llm, wrapper, basic, prAuto, meta, riskIn, riskOut, diffOutput, structuredDiff, diffData, git, tree, disk, pc,
                 analysis, tsFiles, impact, clientAnalyses, failed, failedFiles, pr, again,
                 upd>>

NextGitFlow ==
  \/ GitSucceeds
  \/ GitFails

SpecGitFlow == InitGitFlow /\ [][NextGitFlow]_vars

-----------------------------------------------------------------------------
(* SpecPr: one call of PRAutomation.createPullRequest on a report of       *)
(* analyzeChanges.  An exchange with gh or with the GitHub API is taken    *)
(* whole: it creates the pull request and delivers its answer, or it fails *)
(* and creates none.                                                       *)

\* generatePRTitle: the emoji of the level ('UNKNOWN' for a report without
\* riskAssessment), and the clients when there are any
GeneratePRTitle(level, affectedClients) ==
  <<level, "SDK Auto-Update">> \o
  (IF affectedClients > 0 THEN <<affectedClients, "clients affected">> ELSE <<>>)

\* What createPRWithGitHubCLI and createPRWithAPI return on success
Created(method) == [success |-> TRUE, method |-> method, title |-> <<>>]

\* providePRInstructions, returning success: true
ProvidePRInstructionsAsSuccess(title) == [success |-> TRUE, method |-> "manual", title |-> title]

\* providePRInstructions: return { success: false, method: 'manual', ... }
ProvidePRInstructions(title) == [success |-> FALSE, method |-> "manual", title |-> title]

InitPr ==
  /\ \E ghInstalled \in BOOLEAN, githubToken \in BOOLEAN, repository \in BOOLEAN,
        prLabels \in BOOLEAN, level \in {"LOW", "MEDIUM", "HIGH", "UNKNOWN"},
        affectedClients \in 0..MaxAffected :
       prAuto = [ghInstalled |-> ghInstalled, githubToken |-> githubToken,
                 repository |-> repository, prLabels |-> prLabels, level |-> level,
                 affectedClients |-> affectedClients, at |-> "called", title |-> <<>>,
                 tried |-> <<>>, labelled |-> FALSE, saved |-> FALSE, result |-> <<>>]
  /\ llm = <<>> /\ wrapper = <<>> /\ basic = <<>> /\ flow = <<>> /\ meta = <<>> /\ again = <<>> /\ upd = <<>>
  /\ highlights = <<>>
  /\ RiskIdle /\ DiffIdle /\ RunIdle

PrFrame ==
  UNCHANGED <<highlights, llm, wrapper, basic, riskIn, riskOut, diffOutput, structuredDiff, diffData, git, tree, disk, pc,
              analysis, tsFiles, impact, clientAnalyses, failed, failedFiles, pr, again,
              upd, meta, flow>>

\* const prContent = this.generatePRContent(analysis, options)
GeneratePRContent ==
  /\ prAuto.at = "called"
  /\ prAuto' = [prAuto EXCEPT !.at = "cli",
                              !.title = GeneratePRTitle(prAuto.level, prAuto.affectedClients)]
  /\ PrFrame

\* createPRWithGitHubCLI: gh --version throws when gh is not installed; gh pr
\* create prints the URL of the pull request it created, or throws
CreatePRWithGitHubCLI ==
  /\ prAuto.at = "cli"
  /\ \E created \in {FALSE} \cup {prAuto.ghInstalled} :
       prAuto' = [prAuto EXCEPT
                    !.tried = Append(@, [method |-> "github-cli", created |-> created]),
                    !.at = IF created THEN "returned" ELSE "api",
                    !.result = IF created THEN <<Created("github-cli")>> ELSE <<>>]
  /\ PrFrame

\* createPRWithAPI: returns null without a request when the token or the
\* repository is missing; the POST is answered with the pull request, or with
\* an error status, or not at all; addLabels catches its own failure
CreatePRWithAPI ==
  /\ prAuto.at = "api"
  /\ \E created \in {FALSE} \cup {prAuto.githubToken /\ prAuto.repository},
        labelled \in {FALSE} \cup {prAuto.prLabels} :
       prAuto' = [prAuto EXCEPT
                    !.tried = Append(@, [method |-> "github-api", created |-> created]),
                    !.labelled = created /\ labelled,
                    !.at = IF created THEN "returned" ELSE "manual",
                    !.result = IF created THEN <<Created("github-api")>> ELSE <<>>]
  /\ PrFrame

\* return this.providePRInstructions(branchName, prContent); the write of
\* pr-content-<time>.md is not awaited and its failure is dropped
ReturnPRInstructions ==
  /\ prAuto.at = "manual"
  /\ \E saved \in BOOLEAN :
       prAuto' = [prAuto EXCEPT
                    !.tried = Append(@, [method |-> "manual", created |-> FALSE]),
                    !.saved = saved,
                    !.at = "returned",
                    !.result = <<ProvidePRInstructions(prAuto.title)>>]
  /\ PrFrame

NextPr ==
  \/ GeneratePRContent
  \/ CreatePRWithGitHubCLI
  \/ CreatePRWithAPI
  \/ ReturnPRInstructions

SpecPr == InitPr /\ [][NextPr]_vars

-----------------------------------------------------------------------------
(* SpecBasic: one run of BasicSDKUpdater.run, step by step                 *)

\* The object BasicSDKUpdater.run returns after the git workflow; prResult is
\* what the expression `this.config.createPR ? prResult : null` evaluated to
UpdatedResult(gitResult, level, prResult) ==
  [updated |-> TRUE, branchName |-> gitResult.branchName,
   changedFiles |-> gitResult.changedFiles, analysis |-> [level |-> level],
   riskLevel |-> level, prResult |-> prResult]

InitBasic ==
  /\ \E createPR \in BOOLEAN :
       basic = [createPR |-> createPR, at |-> "check", level |-> "none",
                gitResult |-> <<>>, created |-> <<>>, result |-> <<>>]
  /\ llm = <<>> /\ wrapper = <<>> /\ prAuto = <<>> /\ flow = <<>> /\ meta = <<>> /\ again = <<>> /\ upd = <<>>
  /\ highlights = <<>>
  /\ RiskIdle /\ DiffIdle /\ RunIdle

BasicFrame ==
  UNCHANGED <<highlights, llm, wrapper, riskIn, riskOut, diffOutput, structuredDiff, diffData, git, tree, disk, pc,
              analysis, tsFiles, impact, clientAnalyses, failed, failedFiles, pr, again,
              upd, meta, flow, prAuto>>

\* The catch of run: console.error and throw error
BasicThrown(b) == [b EXCEPT !.at = "threw"]

\* const hasChanges = await this.checkForChanges(); if (!hasChanges) return false
BasicCheck ==
  /\ basic.at = "check"
  /\ \/ basic' = BasicThrown(basic)
     \/ basic' = [basic EXCEPT !.at = "returned", !.result = <<FALSE>>]
     \/ basic' = [basic EXCEPT !.at = "generate"]
  /\ BasicFrame

\* await this.generateCode()
BasicGenerate ==
  /\ basic.at = "generate"
  /\ \/ basic' = BasicThrown(basic)
     \/ basic' = [basic EXCEPT !.at = "analyse"]
  /\ BasicFrame

\* const analysis = await this.analyzer.analyzeChanges()
BasicAnalyse ==
  /\ basic.at = "analyse"
  /\ \/ basic' = BasicThrown(basic)
     \/ \E level \in {"LOW", "MEDIUM", "HIGH"} :
          basic' = [basic EXCEPT !.at = "git", !.level = level]
  /\ BasicFrame

\* const gitResult = await this.git.handleChanges(...): it throws, or returns
\* null and run returns true, or returns its result and run enters the block
\* of `if (gitResult)`
BasicHandleChanges ==
  /\ basic.at = "git"
  /\ \/ basic' = BasicThrown(basic)
     \/ basic' = [basic EXCEPT !.at = "returned", !.result = <<TRUE>>]
     \/ \E changedFiles \in 0..MaxFlowFiles, remoteUrl \in {"null", "origin"} :
          basic' = [basic EXCEPT
                      !.gitResult = <<[branchName |-> "new", changedFiles |-> changedFiles,
                                       remoteUrl |-> remoteUrl]>>,
                      !.at = IF basic.createPR THEN "pr" ELSE "summary"]
  /\ BasicFrame

\* if (this.config.createPR) { const prResult = await this.pr.createPullRequest(...) ... }
\* prResult is declared in the block of the if, and the block is left
BasicCreatePullRequest ==
  /\ basic.at = "pr"
  /\ \E success \in BOOLEAN :
       basic' = [basic EXCEPT !.created = <<[success |-> success]>>, !.at = "summary"]
  /\ BasicFrame

\* generateSummary, and return { updated: true, ..., prResult:
\* this.config.createPR ? prResult : null }.  With createPR set the expression
\* reads prResult, which was declared in the block of the if above and is
\* declared in no scope of the return statement: the module (strict code)
\* throws a ReferenceError into the catch.  With createPR unset the
\* expression is null (<<>> here) and prResult is not read.
BasicReturn ==
  /\ basic.at = "summary"
  /\ basic' = IF basic.createPR
              THEN BasicThrown(basic)
              ELSE [basic EXCEPT !.at = "returned",
                                 !.result = <<UpdatedResult(basic.gitResult[1], basic.level,
                                                            <<>>)>>]
  /\ BasicFrame

NextBasic ==
  \/ BasicCheck
  \/ BasicGenerate
  \/ BasicAnalyse
  \/ BasicHandleChanges
  \/ BasicCreatePullRequest
  \/ BasicReturn

SpecBasic == InitBasic /\ [][NextBasic]_vars

-----------------------------------------------------------------------------
(* SpecWrapper: one call of WrapperUpdater.applyAutomatedChanges on up to  *)
(* MaxUpdates suggested updates.  A string is its lines, a line its        *)
(* characters; a suggested content is a string or some other value.        *)

UpdateNames == {Ts("a"), <<"b", ".", "js">>, <<"c", ".", "md">>}

EmptyString == << <<>> >>

StringContent(text) == [type |-> "string", text |-> text]

\* The contents the analysis can suggest: text that passes the checks (two),
\* an unclosed brace, ';;', '} {', ',,', the empty string, and an object
UpdateContents ==
  { StringContent(<< <<"x", "{">>, <<"}">> >>),
    StringContent(<< <<"x", "(", ")", ";">> >>),
    StringContent(<< <<"x", "{">> >>),
    StringContent(<< <<"x", ";", ";">> >>),
    StringContent(<< <<"}", " ", "{">> >>),
    StringContent(<< <<"[", "x", ",", ",", "]">> >>),
    StringContent(EmptyString),
    [type |-> "object", text |-> EmptyString] }

\* The text of a client file before the call
OldText == << <<"o">> >>

\* (line.match(/c/g) || []).length
CountIn(line, c) == Cardinality({i \in 1..Len(line) : line[i] = c})

\* line.match(/\}\s*\{/)
CloseThenOpen(line) ==
  \E i, j \in 1..Len(line) :
    /\ i < j
    /\ line[i] = "}"
    /\ line[j] = "{"
    /\ \A k \in (i + 1)..(j - 1) : line[k] = " "

\* The sum over the lines of (number of `open`) - (number of `close`)
RECURSIVE Balance(_, _, _)
Balance(lines, open, close) ==
  IF lines = <<>> THEN 0
  ELSE CountIn(Head(lines), open) - CountIn(Head(lines), close)
       + Balance(Tail(lines), open, close)

\* WrapperUpdater.validateTypeScriptSyntax
ValidateTypeScriptSyntax(lines) ==
  /\ \A i \in 1..Len(lines) :
       /\ ~Includes(lines[i], <<";", ";">>)
       /\ ~CloseThenOpen(lines[i])
       /\ ~Includes(lines[i], <<",", ",">>)
  /\ Balance(lines, "{", "}") = 0
  /\ Balance(lines, "(", ")") = 0
  /\ Balance(lines, "[", "]") = 0

\* The catch of the loop of applyAutomatedChanges: results.errors.push
RecordError(w, filename, wrote) ==
  [w EXCEPT !.errors = Append(@, filename),
            !.log = Append(@, [filename |-> filename, wrote |-> wrote,
                               before |-> w.files[filename],
                               backups |-> w.backups])]

\* await fs.copyFile(fullPath, backupPath), left out
BackupsSkipped(w, filename) == w.backups

\* await fs.copyFile(fullPath, backupPath): the backup files after it
BackupsWith(w, filename) ==
  w.backups \cup {[filename |-> filename, text |-> w.files[filename][1]]}

\* WrapperUpdater.applyFileUpdate with the catch around it.  copied: copyFile
\* goes through; written: "yes", or writeFile fails and leaves the file as it
\* was ("no") or emptied ("cut")
ApplyFileUpdate(w, update, copied, written) ==
  LET filename == update.filename
      newContent == update.content
      fileExists == w.files[filename] # <<>>
      saved == IF fileExists
               THEN [w EXCEPT !.backups = BackupsWith(w, filename)]
               ELSE w
  IN IF newContent.type # "string" \/ newContent.text = EmptyString
     THEN RecordError(w, filename, FALSE)
     ELSE IF ~EndsWith(filename, <<".", "ts">>) /\ ~EndsWith(filename, <<".", "js">>)
     THEN RecordError(w, filename, FALSE)
     ELSE IF fileExists /\ ~copied
     THEN RecordError(w, filename, FALSE)
     ELSE IF ~ValidateTypeScriptSyntax(newContent.text)
     THEN RecordError(saved, filename, FALSE)
     ELSE IF written = "no"
     THEN RecordError(saved, filename, FALSE)
     ELSE IF written = "cut"
     THEN [RecordError(saved, filename, TRUE) EXCEPT !.files[filename] = <<EmptyString>>]
     ELSE [saved EXCEPT
             !.files[filename] = <<newContent.text>>,
             !.updatedFiles = Append(@, [file |-> filename, isNewFile |-> ~fileExists]),
             !.log = Append(@, [filename |-> filename, wrote |-> TRUE,
                                before |-> w.files[filename],
                                backups |-> saved.backups])]

InitWrapper ==
  /\ \E canAutomate \in BOOLEAN,
        names \in Listings(UpdateNames, MaxUpdates),
        there \in SUBSET UpdateNames :
       \E contents \in [1..Len(names) -> UpdateContents] :
         LET files == [f \in UpdateNames |-> IF f \in there THEN <<OldText>> ELSE <<>>]
         IN wrapper = [canAutomate |-> canAutomate,
                       suggestedUpdates |->
                         [i \in 1..Len(names) |->
                            [filename |-> names[i], content |-> contents[i]]],
                       files |-> files, initial |-> files, backups |-> {},
                       at |-> "called", updatedFiles |-> <<>>, errors |-> <<>>,
                       log |-> <<>>]
  /\ llm = <<>> /\ basic = <<>> /\ prAuto = <<>> /\ flow = <<>> /\ meta = <<>>
  /\ again = <<>> /\ upd = <<>>
  /\ highlights = <<>>
  /\ RiskIdle /\ DiffIdle /\ RunIdle

WrapperFrame ==
  UNCHANGED <<highlights, llm, riskIn, riskOut, diffOutput, structuredDiff, diffData, git, tree, disk, pc,
              analysis, tsFiles, impact, clientAnalyses, failed, failedFiles, pr, again,
              upd, meta, flow, prAuto, basic>>

\* if (!analysis.automatedChanges?.canAutomate) return results
EnterApplyAutomatedChanges ==
  /\ wrapper.at = "called"
  /\ wrapper' = [wrapper EXCEPT !.at = IF wrapper.canAutomate THEN "loop" ELSE "returned"]
  /\ WrapperFrame

\* One turn of for (const [filename, newContent] of Object.entries(...))
ApplyNextUpdate ==
  /\ wrapper.at = "loop"
  /\ Len(wrapper.log) < Len(wrapper.suggestedUpdates)
  /\ \E copied \in BOOLEAN, written \in {"yes", "no", "cut"} :
       wrapper' = ApplyFileUpdate(wrapper, wrapper.suggestedUpdates[Len(wrapper.log) + 1],
                                  copied, written)
  /\ WrapperFrame

\* return results, after the loop
ReturnResults ==
  /\ wrapper.at = "loop"
  /\ Len(wrapper.log) = Len(wrapper.suggestedUpdates)
  /\ wrapper' = [wrapper EXCEPT !.at = "returned"]
  /\ WrapperFrame

NextWrapper ==
  \/ EnterApplyAutomatedChanges
  \/ ApplyNextUpdate
  \/ ReturnResults

SpecWrapper == InitWrapper /\ [][NextWrapper]_vars

-----------------------------------------------------------------------------
(* SpecLlm: one call of LLMAnalyzer.analyzeChanges, of the OpenAI client   *)
(* (automation/llm-analyzer.mjs) or of the Anthropic client.  The text of  *)
(* a response is a sequence of tokens: a JSON text, prose, a run of        *)
(* backticks ("tick", "fence"), the opener of a json block ("fence json"),  *)
(* a blank or a line break ("nl").                                         *)

RiskLevels == {"LOW", "MEDIUM", "HIGH", "BREAKING"}

\* The JSON texts a response can carry, and what JSON.parse makes of them: an
\* object with riskAssessment.level, an object without riskAssessment, null
LevelTexts == RiskLevels \cup {"CRITICAL"}
JsonTexts == LevelTexts \cup {"{}", "null"}

JsonValue(text) ==
  IF text \in LevelTexts
  THEN [riskAssessment |-> <<[level |-> text]>>]
  ELSE [riskAssessment |-> <<>>]

RECURSIVE DropWhile(_, _)
DropWhile(tokens, dropped) ==
  IF tokens # <<>> /\ Head(tokens) \in dropped THEN DropWhile(Tail(tokens), dropped)
  ELSE tokens

Reverse(tokens) == [i \in 1..Len(tokens) |-> tokens[Len(tokens) + 1 - i]]

\* Both ends of the text without the tokens of `dropped`
Strip(tokens, dropped) == Reverse(DropWhile(Reverse(DropWhile(tokens, dropped)), dropped))

\* LLMAnalyzer.cleanJsonResponse: the inside of the first json block,
\* trimmed; without such a block the text without backticks at its ends, trimmed
CleanJsonResponse(content) ==
  LET blocks == {p \in (1..Len(content)) \X (1..Len(content)) :
                   /\ p[1] < p[2]
                   /\ content[p[1]] = "fence json"
                   /\ content[p[2]] = "fence"
                   /\ \A k \in 1..(p[1] - 1) :
                        ~(content[k] = "fence json" /\ \E m \in (k + 1)..Len(content) : content[m] = "fence")
                   /\ \A k \in (p[1] + 1)..(p[2] - 1) : content[k] # "fence"}
  IN IF blocks # {}
     THEN LET p == CHOOSE q \in blocks : TRUE
          IN Strip(SubSeq(content, p[1] + 1, p[2] - 1), {" ", "nl"})
     ELSE Strip(Strip(content, {"tick", "fence"}), {" ", "nl"})

\* JSON.parse: <<value>>, or <<>> when it throws
JsonParse(tokens) ==
  IF Len(tokens) = 1 /\ tokens[1] \in JsonTexts THEN <<JsonValue(tokens[1])>> ELSE <<>>

\* The texts a chat completion can carry
Contents ==
  UNION {{ <<j>>,
           <<"fence json", "nl", j, "nl", "fence">>,
           <<"prose", "nl", "fence json", "nl", j, "nl", "fence", "nl", "prose">>,
           <<"fence", "nl", j, "nl", "fence">>,
           <<"prose", " ", j>> } : j \in JsonTexts}
  \cup {<<"prose">>, <<>>}

\* What the client call ends with: it throws; or (OpenAI) a message whose
\* content is null or a text; or (Anthropic) content blocks with or without a
\* tool_use block, whose input is an object
Responses(client) ==
  {[kind |-> "threw", content |-> <<>>, input |-> "null"]} \cup
  (IF client = "openai"
   THEN {[kind |-> "null content", content |-> <<>>, input |-> "null"]}
        \cup {[kind |-> "message", content |-> c, input |-> "null"] : c \in Contents}
   ELSE {[kind |-> "no tool_use", content |-> <<>>, input |-> "null"]}
        \cup {[kind |-> "tool_use", content |-> <<>>, input |-> j] : j \in JsonTexts \ {"null"}})

\* LLMAnalyzer.enhanceAnalysis: { ...analysis, metadata: {...} }
EnhanceAnalysis(value, diffSummary) ==
  [riskAssessment |-> value.riskAssessment,
   metadata |-> [analysisMethod |-> "llm", diffSummary |-> diffSummary]]

\* LLMAnalyzer.createFallbackAnalysis
CreateFallbackAnalysis(diffSummary) ==
  [riskAssessment |-> <<[level |-> "HIGH"]>>,
   metadata |-> [analysisMethod |-> "fallback", diffSummary |-> diffSummary]]

\* LLMAnalyzer.analyzeChanges: the try, and the catch that returns the fallback
AnalyzeChangesWithLlm(response, diffSummary) ==
  LET parsed == IF response.kind = "message"
                THEN JsonParse(CleanJsonResponse(response.content))
                ELSE IF response.kind = "tool_use"
                THEN <<JsonValue(response.input)>>
                ELSE <<>>
  IN IF parsed = <<>>
     THEN CreateFallbackAnalysis(diffSummary)
     ELSE EnhanceAnalysis(parsed[1], diffSummary)

InitLlm ==
  /\ \E client \in {"openai", "anthropic"}, filesChanged \in 0..MaxFlowFiles :
       llm = [client |-> client, diffSummary |-> [filesChanged |-> filesChanged],
              response |-> <<>>, result |-> <<>>]
  /\ wrapper = <<>> /\ basic = <<>> /\ prAuto = <<>> /\ flow = <<>> /\ meta = <<>>
  /\ again = <<>> /\ upd = <<>>
  /\ highlights = <<>>
  /\ RiskIdle /\ DiffIdle /\ RunIdle

\* const analysis = await this.llmAnalyzer.analyzeChanges(diffData, ...)
CallAnalyzeChanges ==
  /\ llm.result = <<>>
  /\ \E response \in Responses(llm.client) :
       llm' = [llm EXCEPT !.response = <<response>>,
                          !.result = <<AnalyzeChangesWithLlm(response, llm.diffSummary)>>]
  /\ UNCHANGED <<highlights, riskIn, riskOut, diffOutput, structuredDiff, diffData, git, tree, disk, pc,
                 analysis, tsFiles, impact, clientAnalyses, failed, failedFiles, pr, again,
                 upd, meta, flow, prAuto, basic, wrapper>>

NextLlm == CallAnalyzeChanges

SpecLlm == InitLlm /\ [][NextLlm]_vars

-----------------------------------------------------------------------------
(* SpecHighlights: parseStructuredDiff on every text of SpecDiff, and then *)
(* the two readers of its file records, DiffAnalyzer.extractDiffHighlights *)
(* and LLMAnalyzer.formatDiffHighlights, each applied to what it returned  *)

\* files.map(f => f.path)
PathsOf(files) == [k \in 1..Len(files) |-> files[k].path]

\* content.includes(word), the content being a sequence of atoms
IncludesAny(content, words) == \E k \in 1..Len(content) : content[k] \in words

\* The additions and deletions of a file whose content holds one of the words,
\* as extractDiffHighlights pushes them
RECURSIVE ChangesWith(_, _, _)
ChangesWith(path, changes, words) ==
  IF changes = <<>> THEN <<>>
  ELSE (IF Head(changes).type \in {"addition", "deletion"}
           /\ IncludesAny(Head(changes).content, words)
        THEN <<[file |-> path, type |-> Head(changes).type,
                content |-> Head(changes).content]>>
        ELSE <<>>)
       \o ChangesWith(path, Tail(changes), words)

RECURSIVE HunkChangesWith(_, _, _)
HunkChangesWith(path, hunks, words) ==
  IF hunks = <<>> THEN <<>>
  ELSE ChangesWith(path, Head(hunks).changes, words)
       \o HunkChangesWith(path, Tail(hunks), words)

RECURSIVE FileChangesWith(_, _)
FileChangesWith(files, words) ==
  IF files = <<>> THEN <<>>
  ELSE HunkChangesWith(Head(files).path, Head(files).hunks, words)
       \o FileChangesWith(Tail(files), words)

ApiWords == {"endpoint", "path", "/api/", "/v1/"}
TypeWords == {"interface", "type", "export"}

\* DiffAnalyzer.extractDiffHighlights: `if (file.isNewFile) ... else if
\* (file.isDeletedFile) ... else ...` for the three groups of paths
ExtractDiffHighlights(sd) ==
  LET IsNew(f) == f.isNewFile
      IsDeleted(f) == ~f.isNewFile /\ f.isDeletedFile
      IsModified(f) == ~f.isNewFile /\ ~f.isDeletedFile
  IN [newFiles |-> PathsOf(SelectSeq(sd.files, IsNew)),
      deletedFiles |-> PathsOf(SelectSeq(sd.files, IsDeleted)),
      modifiedFiles |-> PathsOf(SelectSeq(sd.files, IsModified)),
      apiChanges |-> FileChangesWith(sd.files, ApiWords),
      typeChanges |-> FileChangesWith(sd.files, TypeWords)]

\* One line of the formatted text: '\nNew files (2): a, b'
GroupLine(label, paths) ==
  IF Len(paths) > 0 THEN <<[label |-> label, count |-> Len(paths), paths |-> paths]>>
  ELSE <<>>

\* LLMAnalyzer.formatDiffHighlights: three filters over the same files, and a
\* line for every filter that kept a file.  The text is given as its lines.
FormatDiffHighlights(sd) ==
  LET IsNew(f) == f.isNewFile
      IsDeleted(f) == f.isDeletedFile
      IsModified(f) == ~f.isNewFile /\ ~f.isDeletedFile
      lines == GroupLine("New files", PathsOf(SelectSeq(sd.files, IsNew)))
               \o GroupLine("Deleted files", PathsOf(SelectSeq(sd.files, IsDeleted)))
               \o GroupLine("Modified files", PathsOf(SelectSeq(sd.files, IsModified)))
  IN IF Len(sd.files) = 0 THEN <<"No file changes detected">>
     ELSE IF lines = <<>> THEN <<"No significant changes detected">>
     ELSE lines

InitHighlights ==
  /\ diffOutput \in DiffTexts
  /\ structuredDiff = <<>>
  /\ diffData = <<>>
  /\ highlights = [extracted |-> <<>>, formatted |-> <<>>]
  /\ llm = <<>> /\ wrapper = <<>> /\ basic = <<>> /\ prAuto = <<>> /\ flow = <<>>
  /\ meta = <<>>
  /\ RiskIdle /\ RunIdle /\ AgainIdle

HighlightsFrame ==
  UNCHANGED <<llm, wrapper, basic, prAuto, flow, meta, upd, again, pr, failedFiles,
              diffData, riskIn, riskOut, diffOutput, structuredDiff, git, tree, disk,
              pc, analysis, tsFiles, impact, clientAnalyses, failed>>

\* this.extractDiffHighlights(structuredDiff) on what the parser returned
CallExtractDiffHighlights ==
  /\ structuredDiff # <<>> /\ ~structuredDiff[1].threw
  /\ highlights.extracted = <<>>
  /\ highlights' = [highlights EXCEPT
                      !.extracted = <<ExtractDiffHighlights(structuredDiff[1])>>]
  /\ HighlightsFrame

\* this.formatDiffHighlights(diffData.structuredDiff) of buildAnalysisPrompt
CallFormatDiffHighlights ==
  /\ structuredDiff # <<>> /\ ~structuredDiff[1].threw
  /\ highlights.formatted = <<>>
  /\ highlights' = [highlights EXCEPT
                      !.formatted = <<FormatDiffHighlights(structuredDiff[1])>>]
  /\ HighlightsFrame

NextHighlights ==
  \/ CallParseStructuredDiff
  \/ CallExtractDiffHighlights
  \/ CallFormatDiffHighlights

SpecHighlights == InitHighlights /\ [][NextHighlights]_vars

-----------------------------------------------------------------------------
(* Spec: one run of ChangeAnalyzer.analyzeChanges.  git and the working    *)
(* tree are as the run finds them; what the file system answers is drawn   *)
(* at each read and write.                                                 *)

\* ./automation holds no latest-analysis.json yet, or that of an earlier run;
\* the snapshot file of this run, named by its time, does not exist yet
Init ==
  /\ git \in {"ok", "nodiff", "down"}
  /\ tree \in SUBSET {StatusLines[i] : i \in 1..Len(StatusLines)}
  /\ disk \in {[snapshot |-> <<>>, latest |-> <<>>],
               [snapshot |-> <<>>, latest |-> <<[timestamp |-> "earlier"]>>]}
  /\ pc = "git"
  /\ analysis = [timestamp |-> "now"]
  /\ tsFiles = <<>> /\ impact = <<>> /\ clientAnalyses = <<>>
  /\ failed = {} /\ failedFiles = {}
  /\ pr = [at |-> "idle", analysis |-> <<>>]
  /\ RiskIdle /\ DiffIdle /\ AgainIdle /\ LaterIdle

\* gitChanges: await this.getGitChanges()
RunGetGitChanges ==
  /\ pc = "git"
  /\ analysis' = analysis @@ [gitChanges |-> GetGitChanges(git, tree)]
  /\ failed' = failed \cup (IF git = "down" THEN {"git"} ELSE {})
  /\ pc' = "generated"
  /\ UNCHANGED <<highlights, llm, wrapper, basic, prAuto, flow, meta, upd, again, pr, failedFiles, diffData, riskIn, riskOut, diffOutput, structuredDiff, git, tree, disk,
                 tsFiles, impact, clientAnalyses>>

\* generatedCodeChanges: await this.analyzeGeneratedChanges()
RunAnalyzeGeneratedChanges ==
  /\ pc = "generated"
  /\ \E exists \in BOOLEAN,
        apis \in {<<>>} \cup {<<l>> : l \in Listings(ApiNames, MaxApiFiles)},
        unreadable \in SUBSET ApiNames,
        models \in {<<>>, <<ModelListing>>} :
       /\ exists \/ (apis = <<>> /\ models = <<>>)
       /\ unreadable \subseteq (IF apis = <<>> THEN {}
                                ELSE {apis[1][i] : i \in 1..Len(apis[1])})
       /\ Cardinality(unreadable) <= 1
       /\ \A f \in unreadable : IsTs(f)
       /\ analysis' = analysis @@
            [generatedCodeChanges |-> AnalyzeGeneratedChanges(exists, apis, unreadable, models)]
       /\ failed' = failed
            \cup (IF ~exists THEN {"generatedDir"} ELSE {})
            \cup (IF exists /\ apis = <<>> THEN {"apiDir"} ELSE {})
            \cup (IF exists /\ models = <<>> THEN {"modelDir"} ELSE {})
            \cup (IF unreadable # {} THEN {"apiFile"} ELSE {})
       /\ failedFiles' = failedFiles
            \cup {Join(Join(GeneratedDir, <<"apis">>), f) : f \in unreadable}
  /\ pc' = "wrapper"
  /\ UNCHANGED <<highlights, llm, wrapper, basic, prAuto, flow, meta, upd, again, pr, diffData, riskIn, riskOut, diffOutput, structuredDiff, git, tree, disk,
                 tsFiles, impact, clientAnalyses>>

\* analyzeWrapperImpact, to its loop: fs.access fails and it returns, or
\* fs.readdir lists the directory
OpenWrapperImpact ==
  /\ pc = "wrapper"
  /\ \/ /\ analysis' = analysis @@
             [wrapperImpact |-> [error |-> "Client directory not found",
                                 affectedClients |-> <<>>]]
        /\ failed' = failed \cup {"clientDir"}
        /\ pc' = "risk"
        /\ UNCHANGED <<tsFiles, impact>>
     \/ \E clientFiles \in Listings(WrapperNames, MaxClientFiles) :
          /\ tsFiles' = TsFiles(clientFiles)
          /\ impact' = [affectedClients |-> <<>>,
                        totalClients |-> Len(TsFiles(clientFiles)),
                        riskLevel |-> "LOW"]
          /\ pc' = "clients"
          /\ UNCHANGED <<analysis, failed>>
  /\ UNCHANGED <<highlights, llm, wrapper, basic, prAuto, flow, meta, upd, again, pr, failedFiles, diffData, riskIn, riskOut, diffOutput, structuredDiff, git, tree, disk,
                 clientAnalyses>>

\* One turn of `for (const file of tsFiles)`: the file is read and analysed,
\* or the read throws into the catch of analyzeWrapperImpact
AnalyzeNextClient ==
  /\ pc = "clients"
  /\ Len(clientAnalyses) < Len(tsFiles)
  /\ LET file == tsFiles[Len(clientAnalyses) + 1]
         clientAnalysis == AnalyzeClientFile(Join(ClientDir, file), WrapperContent(file),
                                             GetGitChanges(git, tree))
     IN \/ /\ clientAnalyses' = Append(clientAnalyses, clientAnalysis)
           /\ impact' = IF Len(clientAnalysis.affectedImports) > 0
                        THEN [impact EXCEPT !.affectedClients = Append(@, clientAnalysis)]
                        ELSE impact
           /\ UNCHANGED <<analysis, failed, failedFiles, pc>>
        \/ /\ analysis' = analysis @@
                [wrapperImpact |-> [error |-> "read failed", affectedClients |-> <<>>]]
           /\ failed' = failed \cup {"clientFile"}
           /\ failedFiles' = failedFiles \cup {Join(ClientDir, file)}
           /\ pc' = "risk"
           /\ UNCHANGED <<clientAnalyses, impact>>
  /\ UNCHANGED <<highlights, llm, wrapper, basic, prAuto, flow, meta, upd, again, pr, diffData, riskIn, riskOut, diffOutput, structuredDiff, git, tree, disk, tsFiles>>

\* After the loop: the overall risk level, and `return impact`
ReturnWrapperImpact ==
  /\ pc = "clients"
  /\ Len(clientAnalyses) = Len(tsFiles)
  /\ analysis' = analysis @@
       [wrapperImpact |-> [impact EXCEPT !.riskLevel = OverallRisk(impact.affectedClients)]]
  /\ pc' = "risk"
  /\ UNCHANGED <<highlights, llm, wrapper, basic, prAuto, flow, meta, upd, again, pr, failedFiles, diffData, riskIn, riskOut, diffOutput, structuredDiff, git, tree, disk,
                 tsFiles, impact, clientAnalyses, failed>>

\* analysis.riskAssessment = this.assessRisk(analysis)
RunAssessRisk ==
  /\ pc = "risk"
  /\ analysis' = analysis @@ [riskAssessment |-> AssessRisk(analysis)]
  /\ pc' = "save"
  /\ UNCHANGED <<highlights, llm, wrapper, basic, prAuto, flow, meta, upd, again, pr, failedFiles, diffData, riskIn, riskOut, diffOutput, structuredDiff, git, tree, disk,
                 tsFiles, impact, clientAnalyses, failed>>

\* await this.saveAnalysis(analysis); return analysis.  Either write can fail;
\* the first failure leaves the second write undone.  A file holds
\* JSON.stringify(analysis), which JSON.parse turns back into an equal value:
\* the report is made of strings, numbers, arrays and plain objects.
SaveAnalysis ==
  /\ pc = "save"
  /\ \/ /\ disk' = [snapshot |-> <<analysis>>, latest |-> <<analysis>>]
        /\ UNCHANGED failed
     \/ /\ disk' = [disk EXCEPT !.snapshot = <<analysis>>]
        /\ failed' = failed \cup {"save"}
     \/ /\ disk' = disk
        /\ failed' = failed \cup {"save"}
  /\ pc' = "done"
  /\ UNCHANGED <<highlights, llm, wrapper, basic, prAuto, flow, meta, upd, again, pr, failedFiles, diffData, riskIn, riskOut, diffOutput, structuredDiff, git, tree,
                 analysis, tsFiles, impact, clientAnalyses>>

\* create-pr.mjs main, run after analyzeChanges has returned, to the point
\* where it has its analysis or starts one: it leaves when not on a feature
\* branch; it takes latest-analysis.json when the file is there; when it is
\* not, the read throws and the catch calls analyzeChanges of a new ChangeAnalyzer
CreatePrReadLatest ==
  /\ pc = "done" /\ pr.at = "idle"
  /\ \/ /\ pr' = [at |-> "left", analysis |-> <<>>]
        /\ UNCHANGED <<disk, pc, analysis, tsFiles, impact, clientAnalyses, failed, failedFiles>>
     \/ /\ disk.latest # <<>>
        /\ pr' = [at |-> "built", analysis |-> disk.latest]
        /\ UNCHANGED <<disk, pc, analysis, tsFiles, impact, clientAnalyses, failed, failedFiles>>
     \/ /\ disk.latest = <<>>
        /\ pr' = [at |-> "analysing", analysis |-> <<>>]
        /\ disk' = [disk EXCEPT !.snapshot = <<>>]
        /\ pc' = "git"
        /\ analysis' = [timestamp |-> "later"]
        /\ tsFiles' = <<>> /\ impact' = <<>> /\ clientAnalyses' = <<>>
        /\ failed' = {} /\ failedFiles' = {}
  /\ UNCHANGED <<highlights, llm, wrapper, basic, prAuto, flow, meta, upd, again, riskIn, riskOut, diffOutput, structuredDiff, diffData, git, tree>>

\* create-pr.mjs main: analyzeChanges has returned into the catch, and the
\* report goes to pr.createPullRequest
CreatePrAnalysed ==
  /\ pc = "done" /\ pr.at = "analysing"
  /\ pr' = [at |-> "built", analysis |-> <<analysis>>]
  /\ UNCHANGED <<highlights, llm, wrapper, basic, prAuto, flow, meta, upd, again, riskIn, riskOut, diffOutput, structuredDiff, diffData, git, tree, disk, pc,
                 analysis, tsFiles, impact, clientAnalyses, failed, failedFiles>>

Next ==
  \/ CreatePrReadLatest
  \/ CreatePrAnalysed
  \/ RunGetGitChanges
  \/ RunAnalyzeGeneratedChanges
  \/ OpenWrapperImpact
  \/ AnalyzeNextClient
  \/ ReturnWrapperImpact
  \/ RunAssessRisk
  \/ SaveAnalysis

Spec == Init /\ [][Next]_vars

-----------------------------------------------------------------------------
(* C1: assessRisk returns score = F(totalFiles) + W(affectedClients) +     *)
(* G(generatedChanges), F, W and G counting the thresholds                 *)
(* {5,10,20}, {0,1,3} and {5,10} that the count exceeds, and the level is  *)
(* HIGH iff score >= 6, MEDIUM iff 3 <= score <= 5, LOW iff score <= 2;    *)
(* it is never BREAKING.                                                   *)

Exceeded(n, thresholds) == Cardinality({t \in thresholds : n > t})

C1_ScoreAndLevel ==
  riskOut # <<>> =>
    LET n == riskIn[1].gitChanges.totalFiles
        c == Len(riskIn[1].wrapperImpact.affectedClients)
        g == Len(riskIn[1].generatedCodeChanges.apiFiles)
        out == riskOut[1]
        s == out.score
    IN /\ s = Exceeded(n, {5, 10, 20}) + Exceeded(c, {0, 1, 3}) + Exceeded(g, {5, 10})
       /\ out.factors = [totalFiles |-> n, affectedClients |-> c, generatedChanges |-> g]
       /\ out.level \in {"LOW", "MEDIUM", "HIGH"}
       /\ (out.level = "HIGH") <=> (s >= 6)
       /\ (out.level = "MEDIUM") <=> (3 <= s /\ s <= 5)
       /\ (out.level = "LOW") <=> (s <= 2)

\* (25, 4, 12) scored 8 and HIGH
C1_Witness ==
  /\ riskOut # <<>>
  /\ riskIn = <<AnalysisWith(25, 4, 12)>>
  /\ riskOut[1].score = 8 /\ riskOut[1].level = "HIGH"

LevelRank(level) == CASE level = "LOW" -> 1 [] level = "MEDIUM" -> 2 [] level = "HIGH" -> 3

\* The counts of an analysis object handed to assessRisk
CountsOf(a) == <<a.gitChanges.totalFiles, Len(a.wrapperImpact.affectedClients),
                 Len(a.generatedCodeChanges.apiFiles)>>

\* The triples of counts that raise one count of c and keep the other two
RaisedFrom(c) ==
  {<<n, c[2], c[3]>> : n \in (c[1] + 1)..(MaxTotalFiles + 1)}
  \cup {<<c[1], w, c[3]>> : w \in (c[2] + 1)..(MaxAffected + 1)}
  \cup {<<c[1], c[2], g>> : g \in (c[3] + 1)..(MaxGenerated + 1)}

(* C11: assessRisk is monotonic.  Raising one of totalFiles,               *)
(* affectedClients, generatedChanges with the other two kept never lowers  *)
(* the score, nor the level in the order LOW < MEDIUM < HIGH.              *)
C11_Monotonic ==
  riskOut # <<>> =>
    \A r \in RaisedFrom(CountsOf(riskIn[1])) :
      LET raised == AssessRisk(AnalysisWith(r[1], r[2], r[3]))
      IN /\ raised.score >= riskOut[1].score
         /\ LevelRank(raised.level) >= LevelRank(riskOut[1].level)

\* (10, 1, 5) scored 2 and LOW, where one more file gives 3 and MEDIUM
C11_Witness ==
  /\ riskOut # <<>>
  /\ CountsOf(riskIn[1]) = <<10, 1, 5>>
  /\ riskOut[1].score = 2 /\ riskOut[1].level = "LOW"
  /\ AssessRisk(AnalysisWith(11, 1, 5)).level = "MEDIUM"

-----------------------------------------------------------------------------
(* The input text, read independently of the parser *)

IsFileHeader(line) == line # <<>> /\ line[1] = "diff --git"
IsHunkHeader(line) == line # <<>> /\ line[1] = "@@"
IsBody(line) == line # <<>> /\ line[1] \in {"+", "-", " "}

FileHeaderAt == {i \in 1..Len(diffOutput) : IsFileHeader(diffOutput[i])}
HunkHeaderAt == {i \in 1..Len(diffOutput) : IsHunkHeader(diffOutput[i])}

\* The place of the k-th element of a set of places
Nth(places, k) == CHOOSE i \in places : Cardinality({j \in places : j < i}) = k - 1

\* The last file or hunk header before place i, 0 when there is none
Opener(i) ==
  LET before == {j \in FileHeaderAt \cup HunkHeaderAt : j < i}
  IN IF before = {} THEN 0 ELSE CHOOSE j \in before : \A m \in before : m <= j

\* The last file header before place i, 0 when there is none
Owner(i) ==
  LET before == {j \in FileHeaderAt : j < i}
  IN IF before = {} THEN 0 ELSE CHOOSE j \in before : \A m \in before : m <= j

\* Hunk headers that follow a file header, and the body lines of such hunks
OwnedHunkAt == {i \in HunkHeaderAt : Owner(i) # 0}
BodyOf(h) == {i \in 1..Len(diffOutput) : IsBody(diffOutput[i]) /\ Opener(i) = h}

RECURSIVE Sum(_)
Sum(nums) == IF nums = <<>> THEN 0 ELSE Head(nums) + Sum(Tail(nums))

(* C8: parseStructuredDiff returns without throwing for any text; a hunk   *)
(* header before any file header is dropped with the content lines that    *)
(* follow it; the file list holds one entry per 'diff --git' line, in       *)
(* input order (none for the empty text).                                   *)
C8_OneFilePerHeader ==
  structuredDiff # <<>> =>
    LET out == structuredDiff[1]
        HunkCount(f) == Len(f.hunks)
        ChangeCount(f) == Sum([m \in 1..Len(f.hunks) |-> Len(f.hunks[m].changes)])
    IN /\ ~out.threw
       /\ Len(out.files) = Cardinality(FileHeaderAt)
       /\ \A k \in 1..Len(out.files) :
            out.files[k].path = HeaderPath(diffOutput[Nth(FileHeaderAt, k)])
       /\ Sum([k \in 1..Len(out.files) |-> HunkCount(out.files[k])])
            = Cardinality(OwnedHunkAt)
       /\ Sum([k \in 1..Len(out.files) |-> ChangeCount(out.files[k])])
            = Cardinality(UNION {BodyOf(h) : h \in OwnedHunkAt})

\* A text that opens with a hunk header and body line, then names a file
C8_Witness ==
  /\ structuredDiff # <<>>
  /\ Len(diffOutput) = 4
  /\ IsHunkHeader(diffOutput[1]) /\ IsBody(diffOutput[2])
  /\ IsFileHeader(diffOutput[3]) /\ IsHunkHeader(diffOutput[4])
  /\ Len(structuredDiff[1].files) = 1
  /\ Len(structuredDiff[1].files[1].hunks) = 1

\* The counts a hunk header '@@ -l,old +l,new @@' declares
Digit(d) == CASE d = "0" -> 0 [] d = "1" -> 1 [] d = "2" -> 2
DeclaredOld(header) == Digit(header[5])
DeclaredNew(header) == Digit(header[9])

CountOf(changes, types) == Cardinality({i \in 1..Len(changes) : changes[i].type \in types})
BodyCount(h, prefixes) == Cardinality({i \in BodyOf(h) : diffOutput[i][1] \in prefixes})

\* The place in the text of hunk m of file k of the result
HunksOf(fh) == {i \in HunkHeaderAt : Owner(i) = fh}
HunkAt(k, m) == Nth(HunksOf(Nth(FileHeaderAt, k)), m)

(* C9, as claimed: in every hunk returned, the changes of type addition or *)
(* context number the new-range count the hunk header declares, and those  *)
(* of type deletion or context the old-range count.                        *)
C9_DeclaredRanges ==
  structuredDiff # <<>> =>
    \A k \in 1..Len(structuredDiff[1].files) :
      \A m \in 1..Len(structuredDiff[1].files[k].hunks) :
        LET hunk == structuredDiff[1].files[k].hunks[m]
        IN /\ CountOf(hunk.changes, {"addition", "context"}) = DeclaredNew(hunk.header)
           /\ CountOf(hunk.changes, {"deletion", "context"}) = DeclaredOld(hunk.header)

(* C9, amended: the parser never reads the declared ranges.  In every hunk *)
(* returned, the changes of type addition or context number the '+' and    *)
(* ' ' lines the text holds between that hunk header and the next hunk or  *)
(* file header, and those of type deletion or context its '-' and ' '      *)
(* lines; they equal the declared counts when the text holds as many lines *)
(* as the header declares.                                                 *)
C9_BodyLines ==
  structuredDiff # <<>> =>
    \A k \in 1..Len(structuredDiff[1].files) :
      \A m \in 1..Len(structuredDiff[1].files[k].hunks) :
        LET hunk == structuredDiff[1].files[k].hunks[m]
            h == HunkAt(k, m)
            news == CountOf(hunk.changes, {"addition", "context"})
            olds == CountOf(hunk.changes, {"deletion", "context"})
        IN /\ hunk.header = diffOutput[h]
           /\ news = BodyCount(h, {"+", " "})
           /\ olds = BodyCount(h, {"-", " "})
           /\ (/\ BodyCount(h, {"+", " "}) = DeclaredNew(diffOutput[h])
               /\ BodyCount(h, {"-", " "}) = DeclaredOld(diffOutput[h]))
              => news = DeclaredNew(hunk.header) /\ olds = DeclaredOld(hunk.header)

\* A hunk declared -1,1 +1,1 whose text holds one '-' and one '+' line
C9_Witness ==
  /\ structuredDiff # <<>>
  /\ diffOutput = <<FileHeader(<<"x", ".", "ts">>, <<"x", ".", "ts">>),
                    HunkHeader("1", "1"), <<"-", "a">>, <<"+", "a">>>>
  /\ structuredDiff[1].files[1].hunks[1].changes
       = <<[type |-> "deletion", content |-> <<"a">>],
           [type |-> "addition", content |-> <<"a">>]>>

-----------------------------------------------------------------------------
(* The run, read independently of the analyser *)

\* analyzeWrapperImpact has returned
ImpactReturned == Has(analysis, "wrapperImpact")
Reported == analysis.wrapperImpact.affectedClients

\* The changed files under the generated subtree that git reports
ChangedGenerated ==
  IF git = "down" THEN {}
  ELSE {l.path : l \in {c \in tree : Includes(c.path, <<"generated", "/">>)}}

\* An import path with the '../generated/' prefix removed
Normalized(path) ==
  IF StartsWith(path, <<"..", "/", "generated", "/">>) THEN SubSeq(path, 5, Len(path))
  ELSE path

\* The places in a wrapper file of the named imports from generated code, and
\* of those of them that match a changed generated file
GeneratedImportsAt(file) ==
  {k \in 1..Len(WrapperContent(file).imports) :
     LET stmt == WrapperContent(file).imports[k]
     IN stmt.form = "named" /\ StartsWith(stmt.path, <<"..", "/", "generated">>)}

MatchingAt(file) ==
  {k \in GeneratedImportsAt(file) :
     \E changed \in ChangedGenerated :
       Includes(changed, Normalized(WrapperContent(file).imports[k].path))}

\* The places, among the imports analyzeClientFile recorded, of those whose
\* normalized path is a substring of the path of a changed generated file
MatchingRecorded(a) ==
  {k \in 1..Len(a.imports) :
     \E changed \in ChangedGenerated : Includes(changed, Normalized(a.imports[k].path))}

\* The recorded imports at a set of places, in import order
RECURSIVE RecordedAt(_, _)
RecordedAt(a, places) ==
  IF places = {} THEN <<>>
  ELSE LET k == CHOOSE m \in places : \A n \in places : m <= n
       IN <<a.imports[k]>> \o RecordedAt(a, places \ {k})

ReportedFor(file) == {i \in 1..Len(Reported) : Reported[i].file = file}

(* C2, as claimed: a wrapper file is in wrapperImpact.affectedClients iff  *)
(* one of its recorded generated-code imports has a normalized path that   *)
(* is a substring of the path of a changed file under the generated        *)
(* subtree; a file with no generated-code import is never listed;          *)
(* affectedImports is the matching imports in import order.                *)
C2_AffectedIffMatch ==
  ImpactReturned =>
    \A f \in 1..Len(clientAnalyses) :
      LET a == clientAnalyses[f]
      IN /\ (ReportedFor(a.file) # {}) <=> (MatchingRecorded(a) # {})
         /\ a.imports = <<>> => ReportedFor(a.file) = {}
         /\ \A i \in ReportedFor(a.file) :
              Reported[i].affectedImports = RecordedAt(a, MatchingRecorded(a))

(* C3: for every wrapper file analysed by analyzeClientFile, riskLevel is  *)
(* HIGH iff the affected imports number 5 or more, MEDIUM iff 2, 3 or 4,   *)
(* LOW iff 0 or 1.                                                         *)
C3_ClientRiskTiers ==
  \A i \in 1..Len(clientAnalyses) :
    LET n == Len(clientAnalyses[i].affectedImports)
        level == clientAnalyses[i].riskLevel
    IN /\ (level = "HIGH") <=> (n >= 5)
       /\ (level = "MEDIUM") <=> (n \in 2..4)
       /\ (level = "LOW") <=> (n \in 0..1)

\* One run analysed a file with 5 affected imports and one with 2
C3_Witness ==
  \E i, j \in 1..Len(clientAnalyses) :
    /\ Len(clientAnalyses[i].affectedImports) = 5 /\ clientAnalyses[i].riskLevel = "HIGH"
    /\ Len(clientAnalyses[j].affectedImports) = 2 /\ clientAnalyses[j].riskLevel = "MEDIUM"

\* The changed generated API files of the change set
ChangedApiFiles ==
  {c \in ChangedGenerated : StartsWith(c, Join(GeneratedDir, <<"apis">>) \o <<"/">>)}

(* C4, as claimed: the generated-API count of the factor breakdown is the  *)
(* number of generated API files changed in the change set, so that with a *)
(* clean working tree the assessment is LOW with score 0 and all three     *)
(* counts 0, whatever the generated directory holds.                       *)
C4_CountsChangedApiFiles ==
  (pc = "done" /\ git = "ok") =>
    /\ analysis.riskAssessment.factors.generatedChanges = Cardinality(ChangedApiFiles)
    /\ tree = {} =>
         analysis.riskAssessment =
           [level |-> "LOW", score |-> 0,
            factors |-> [totalFiles |-> 0, affectedClients |-> 0, generatedChanges |-> 0]]

ModelFile == Join(Join(GeneratedDir, <<"models">>), Ts("UserAnalyticsResponseModel"))

(* C5, as claimed: with the wrapper files users.ts (importing              *)
(* UserAnalyticsResponseModel from '../generated/index.js') and            *)
(* questions.ts (no generated import), every file read, and the generated  *)
(* file of UserAnalyticsResponseModel changed, the affected list is        *)
(* exactly users.ts with 1 affected import and tier LOW.                   *)
C5_OnlyUsers ==
  (/\ ImpactReturned
   /\ "clientFile" \notin failed
   /\ Len(tsFiles) = 2
   /\ {tsFiles[1], tsFiles[2]} = {Ts("users"), Ts("questions")}
   /\ ModelFile \in ChangedGenerated)
  => /\ Len(Reported) = 1
     /\ Reported[1].file = Join(ClientDir, Ts("users"))
     /\ Len(Reported[1].affectedImports) = 1
     /\ Reported[1].riskLevel = "LOW"

\* The names a list of import records brings in
Names(imports) == UNION {{imports[i].types[k] : k \in 1..Len(imports[i].types)}
                         : i \in 1..Len(imports)}

(* C6, as claimed: a wrapper file that imports 5 distinct names, all from  *)
(* changed generated files, gets tier HIGH with an affected-import count   *)
(* of 5, however the names are spread over import statements.              *)
C6_FiveNames ==
  \A i \in 1..Len(clientAnalyses) :
    LET a == clientAnalyses[i]
    IN (Cardinality(Names(a.imports)) = 5 /\ a.affectedImports = a.imports)
       => (a.riskLevel = "HIGH" /\ Len(a.affectedImports) = 5)

(* C6, amended: the affected-import count is the number of import          *)
(* statements from changed generated files, not of names.  A wrapper file  *)
(* gets tier HIGH iff 5 or more of its import statements match; 5 names in *)
(* fewer than 5 statements give a count below 5 and no tier HIGH.          *)
C6_FiveStatements ==
  \A i \in 1..Len(clientAnalyses) :
    LET a == clientAnalyses[i]
        file == tsFiles[i]
    IN /\ Len(a.affectedImports) = Cardinality(MatchingAt(file))
       /\ (a.riskLevel = "HIGH") <=> (Cardinality(MatchingAt(file)) >= 5)
       /\ Cardinality(GeneratedImportsAt(file)) < 5 => a.riskLevel # "HIGH"

\* One run analysed answers.ts, 5 statements all affected, and bulk.ts, 5 names
\* in one affected statement
C6_Witness ==
  \E i, j \in 1..Len(clientAnalyses) :
    /\ tsFiles[i] = Ts("answers")
    /\ Len(clientAnalyses[i].affectedImports) = 5 /\ clientAnalyses[i].riskLevel = "HIGH"
    /\ tsFiles[j] = Ts("bulk")
    /\ Cardinality(Names(clientAnalyses[j].affectedImports)) = 5
    /\ Len(clientAnalyses[j].affectedImports) = 1 /\ clientAnalyses[j].riskLevel = "LOW"

(* C7, as claimed: whatever fails (git unavailable, generated directory    *)
(* missing, client directory missing, a source file unreadable, the report *)
(* not saved), the report returned has a riskAssessment with a level in    *)
(* LOW, MEDIUM, HIGH, and each failed sub-section carries an error.        *)
C7_FailuresAnnotated ==
  pc = "done" =>
    /\ Has(analysis, "riskAssessment")
    /\ analysis.riskAssessment.level \in {"LOW", "MEDIUM", "HIGH"}
    /\ "git" \in failed => Has(analysis.gitChanges, "error")
    /\ failed \cap {"generatedDir", "apiFile"} # {}
         => Has(analysis.generatedCodeChanges, "error")
    /\ failed \cap {"clientDir", "clientFile"} # {}
         => Has(analysis.wrapperImpact, "error")

\* The wrapper file names in alphabetical order
Alphabet == <<"answers", "bulk", "questions", "users">>
Rank(path) == CHOOSE r \in 1..Len(Alphabet) : Alphabet[r] = path[Len(ClientDir) + 2]

(* C10, as claimed: wrapperImpact.affectedClients is in alphabetical order *)
(* of the wrapper file paths, whatever order the directory listing has.    *)
C10_Alphabetical ==
  ImpactReturned =>
    \A i, j \in 1..Len(Reported) : i < j => Rank(Reported[i].file) < Rank(Reported[j].file)

-----------------------------------------------------------------------------
\* The file count a summary line of the text gives, 0 without a summary line
ExtractedCount(lines) ==
  IF \E i \in 1..Len(lines) : Len(lines[i]) >= 2 /\ lines[i][Len(lines[i])] = " files changed"
  THEN LET i == CHOOSE k \in 1..Len(lines) :
                  /\ Len(lines[k]) >= 2 /\ lines[k][Len(lines[k])] = " files changed"
                  /\ \A j \in 1..(k - 1) :
                       ~(Len(lines[j]) >= 2 /\ lines[j][Len(lines[j])] = " files changed")
       IN ParseInt(lines[i][Len(lines[i]) - 1])
  ELSE 0

(* C12, as claimed: when the file count of the summary line (0 without a   *)
(* summary line) differs from the number of file records of                *)
(* parseStructuredDiff, the changed-file count that the log line, the      *)
(* prompt summary and the fallback text show is the number of file         *)
(* records.                                                                *)
C12_StructuralCountExposed ==
  diffData # <<>> =>
    LET d == diffData[1]
        structural == Len(d.structuredDiff.files)
    IN ExtractedCount(d.rawDiff) # structural =>
         /\ LoggedFilesChanged(d) = structural
         /\ FormatDiffSummary(d) = <<structural>>
         /\ FallbackFilesModified(d) = <<structural>>

-----------------------------------------------------------------------------
\* The named-import statements of a wrapper file whose source path holds the
\* generated-root marker '../generated' somewhere, as import records
MarkedNamedImports(file) ==
  LET found == SelectSeq(WrapperContent(file).imports,
                         LAMBDA stmt : /\ stmt.form = "named"
                                       /\ Includes(stmt.path, <<"..", "/", "generated">>))
  IN [i \in 1..Len(found) |-> [path |-> found[i].path, types |-> found[i].types]]

(* C13, as claimed: analyzeClientFile records one import for every         *)
(* named-import statement whose source path holds the generated-root       *)
(* marker, wherever in the path it stands ('../generated/models/X',        *)
(* '../../generated/index.js'), with the names of that statement; default  *)
(* and namespace imports give no record.                                   *)
C13_MarkerAnywhere ==
  \A i \in 1..Len(clientAnalyses) :
    clientAnalyses[i].imports = MarkedNamedImports(tsFiles[i])

-----------------------------------------------------------------------------
\* analyzeGeneratedChanges has returned an analysis of the directory
GeneratedAnalysed ==
  Has(analysis, "generatedCodeChanges") /\ Has(analysis.generatedCodeChanges, "newEndpoints")
NewEndpoints == analysis.generatedCodeChanges.newEndpoints

(* C14, as claimed: every endpoint descriptor of                           *)
(* generatedCodeChanges.newEndpoints names its declaring file, so that two *)
(* API files declaring a method of one name give two descriptors that      *)
(* differ, and no two descriptors share the pair (name, file).             *)
C14_EndpointNamesFile ==
  GeneratedAnalysed =>
    /\ \A i \in 1..Len(NewEndpoints) : Has(NewEndpoints[i], "file")
    /\ \A i, j \in 1..Len(NewEndpoints) : i # j => NewEndpoints[i] # NewEndpoints[j]

\* The methods `async name(...): Promise<T>` that an API file declares
DeclaredMethods(file) ==
  {ApiContent(file).members[k].name :
     k \in {n \in 1..Len(ApiContent(file).members) :
              /\ ApiContent(file).members[n].kind = "method"
              /\ ApiContent(file).members[n].async
              /\ ApiContent(file).members[n].promise # <<>>}}

ApiPath(file) == Join(Join(GeneratedDir, <<"apis">>), file)

(* C15, as claimed: a source file that cannot be read lowers fidelity for  *)
(* that file alone.  The wrapper files read are analysed and those with    *)
(* affected imports are in affectedClients although the read of another    *)
(* wrapper file failed, and the endpoints of every API file read are       *)
(* reported although the read of another API file failed.                  *)
C15_OtherFilesKept ==
  /\ ImpactReturned =>
        \A i \in 1..Len(clientAnalyses) :
          clientAnalyses[i].affectedImports # <<>> =>
            \E k \in 1..Len(Reported) : Reported[k] = clientAnalyses[i]
  /\ GeneratedAnalysed =>
        \A i \in 1..Len(analysis.generatedCodeChanges.apiFiles) :
          LET file == analysis.generatedCodeChanges.apiFiles[i]
          IN ApiPath(file) \notin failedFiles =>
               \A name \in DeclaredMethods(file) :
                 \E k \in 1..Len(NewEndpoints) : NewEndpoints[k].method = name

-----------------------------------------------------------------------------
\* The change types of all hunks of a file record
TypesIn(f) ==
  UNION {{f.hunks[m].changes[c].type : c \in 1..Len(f.hunks[m].changes)}
         : m \in 1..Len(f.hunks)}

(* C16, as claimed: a file record marked as a new file has no change of    *)
(* type deletion or context in its hunks, and one marked as a deleted file *)
(* none of type addition or context.                                       *)
C16_NoOtherVersionLines ==
  structuredDiff # <<>> =>
    \A k \in 1..Len(structuredDiff[1].files) :
      LET f == structuredDiff[1].files[k]
      IN /\ f.isNewFile => TypesIn(f) \cap {"deletion", "context"} = {}
         /\ f.isDeletedFile => TypesIn(f) \cap {"addition", "context"} = {}

\* The lines of the text that belong to the file whose header is at place fh
MarkedAt(fh, marker) ==
  {i \in 1..Len(diffOutput) :
     Owner(i) = fh /\ diffOutput[i] # <<>> /\ diffOutput[i][1] = marker}

\* The first atoms of the body lines in the hunks of the file at place fh
PrefixesIn(fh) == {diffOutput[i][1] : i \in UNION {BodyOf(h) : h \in HunksOf(fh)}}

TypeOfPrefix(p) ==
  CASE p = "+" -> "addition" [] p = "-" -> "deletion" [] p = " " -> "context"

(* C16, amended: the parser marks a record as new or deleted from the      *)
(* marker line alone and copies the body lines of the file's hunks         *)
(* whatever the marker.  A record is marked new (deleted) iff a 'new file  *)
(* mode' ('deleted file mode') line follows its header, and the change     *)
(* types of its hunks are those of the body lines the text holds: a record *)
(* marked new has no deletion or context change iff the text holds no '-'  *)
(* or ' ' line in its hunks, one marked deleted no addition or context     *)
(* change iff the text holds no '+' or ' ' line there.                     *)
C16_MarkerAndBodyLines ==
  structuredDiff # <<>> =>
    \A k \in 1..Len(structuredDiff[1].files) :
      LET f == structuredDiff[1].files[k]
          fh == Nth(FileHeaderAt, k)
      IN /\ f.isNewFile <=> (MarkedAt(fh, "new file mode") # {})
         /\ f.isDeletedFile <=> (MarkedAt(fh, "deleted file mode") # {})
         /\ TypesIn(f) = {TypeOfPrefix(p) : p \in PrefixesIn(fh)}
         /\ f.isNewFile =>
              ((TypesIn(f) \cap {"deletion", "context"} = {})
                 <=> (PrefixesIn(fh) \cap {"-", " "} = {}))
         /\ f.isDeletedFile =>
              ((TypesIn(f) \cap {"addition", "context"} = {})
                 <=> (PrefixesIn(fh) \cap {"+", " "} = {}))

\* A new file whose hunk holds one added line, parsed to a record marked new
\* with that one addition
C16_Witness ==
  /\ structuredDiff # <<>>
  /\ diffOutput = <<FileHeader(<<"x", ".", "ts">>, <<"x", ".", "ts">>),
                    <<"new file mode", " 100644">>, HunkHeader("0", "1"), <<"+", "a">>>>
  /\ Len(structuredDiff[1].files) = 1
  /\ structuredDiff[1].files[1].isNewFile
  /\ TypesIn(structuredDiff[1].files[1]) = {"addition"}

-----------------------------------------------------------------------------
(* C17, as claimed: after every analyzeChanges run that returns a report,  *)
(* ./automation/latest-analysis.json holds that run's report, the same as  *)
(* the run's own snapshot file, and create-pr.mjs, reading the file        *)
(* afterwards, never hands on the report of an older run.                  *)
C17_LatestIsThisRun ==
  /\ pc = "done" => disk.latest = <<analysis>> /\ disk.snapshot = <<analysis>>
  /\ (pc = "done" /\ pr.at = "built") => pr.analysis = <<analysis>>

-----------------------------------------------------------------------------
\* The places of the declarations `async name(...): Promise<T>` in a source text
MethodsAt(content) ==
  {k \in 1..Len(content.members) :
     /\ content.members[k].kind = "method"
     /\ content.members[k].async
     /\ content.members[k].promise # <<>>}

(* C18: parseStructuredDiff and extractEndpoints keep no state between     *)
(* calls.  Every call on the same text returns a value equal to that of    *)
(* the first call, and extractEndpoints lists the matched methods in the   *)
(* order of their declarations in the text.                                *)
C18_SameResultAgain ==
  /\ \A i \in 1..Len(again.parsed) : again.parsed[i] = again.parsed[1]
  /\ \A i \in 1..Len(again.endpoints) :
       /\ again.endpoints[i] = again.endpoints[1]
       /\ Len(again.endpoints[i]) = Cardinality(MethodsAt(again.content))
       /\ \A k \in 1..Len(again.endpoints[i]) :
            again.endpoints[i][k] =
              [method |-> again.content.members[Nth(MethodsAt(again.content), k)].name,
               type |-> "api-method"]

\* Both called twice, on a text with a file and a hunk and on the source of
\* QuestionsMainApi.ts, whose three async methods stand around a plain one
C18_Witness ==
  /\ Len(again.parsed) = 2 /\ Len(again.endpoints) = 2
  /\ again.content = ApiContent(Ts("QuestionsMainApi"))
  /\ Len(again.endpoints[2]) = 3
  /\ again.endpoints[2][1].method = "getAllQuestions"
  /\ again.endpoints[2][3].method = "getUserAnalytics"
  /\ Len(again.parsed[2].files) = 1
  /\ Len(again.parsed[2].files[1].hunks) = 1
  /\ Len(again.parsed[2].files[1].hunks[1].changes) = 1

-----------------------------------------------------------------------------
(* C19, as claimed: a detected change of the OpenAPI file is never lost.   *)
(* If checkForChanges returned true in a run and a later step of that run  *)
(* failed, then checkForChanges of the next run, the file having the same  *)
(* content, returns true again.                                            *)
C19_ChangeDetectedAgain ==
  (/\ upd.before # <<>>
   /\ upd.checked # <<>>
   /\ upd.before[1].detected /\ upd.before[1].threw
   /\ upd.before[1].content = upd.content)
  => upd.checked = <<"true">>

\* The run has ended
Ended == upd.at \in {"returned", "threw"}

(* C20, as claimed: with dryRun set, SDKUpdater.run runs no git checkout,  *)
(* creates no branch, commits and pushes nothing, creates no pull request, *)
(* and, having got its analysis, ends by returning a result with success,  *)
(* updated and dryRun all true.                                            *)
C20_DryRunTouchesNothing ==
  upd.dryRun =>
    /\ \A i \in 1..Len(upd.gitOps) :
         upd.gitOps[i] \notin {"checkout", "checkout -b", "commit", "push"}
    /\ ~upd.prCreated
    /\ (Ended /\ upd.analysed) =>
         /\ upd.at = "returned"
         /\ Has(upd.result[1], "dryRun")
         /\ upd.result[1].success /\ upd.result[1].updated /\ upd.result[1].dryRun

-----------------------------------------------------------------------------
(* C21: a call of checkForChanges that returns, returns false exactly when *)
(* the metadata file holds an object whose lastHash is the SHA-256 of the  *)
(* OpenAPI file as the call read it.  When it returns true the metadata    *)
(* file holds lastHash = that hash and previousHash = the lastHash it held *)
(* before (null when it held none), and the next call, when it returns and *)
(* the OpenAPI file was not edited in between, returns false.  When it     *)
(* returns false the metadata file is as it was before the call.           *)

C21_FalseIffSameHash ==
  meta # <<>> =>
    \A k \in 1..Len(meta.calls) :
      LET call == meta.calls[k]
      IN call.outcome # "threw" =>
           /\ call.outcome = "false" <=>
                (call.before.state = "json" /\ call.before.lastHash = Sha256(call.content))
           /\ call.outcome = "true" =>
                /\ call.after.state = "json"
                /\ call.after.lastHash = Sha256(call.content)
                /\ call.after.previousHash =
                     (IF call.before.state = "json" THEN call.before.lastHash ELSE "null")
                /\ (k < Len(meta.calls) /\ meta.calls[k + 1].content = call.content
                      /\ meta.calls[k + 1].outcome # "threw")
                     => meta.calls[k + 1].outcome = "false"
           /\ call.outcome = "false" => call.after = call.before

\* C21: a call returned true over a metadata file that held another lastHash,
\* and the call after it, on the same OpenAPI file, returned false
C21_Witness ==
  /\ meta # <<>>
  /\ Len(meta.calls) = 2
  /\ meta.calls[1].outcome = "true"
  /\ meta.calls[1].before.state = "json"
  /\ meta.calls[1].after.previousHash = meta.calls[1].before.lastHash
  /\ meta.calls[1].after.previousHash # meta.calls[1].after.lastHash
  /\ meta.calls[2].content = meta.calls[1].content
  /\ meta.calls[2].outcome = "false"
  /\ meta.calls[2].after = meta.calls[1].after

-----------------------------------------------------------------------------
(* C22: when the git workflow returns null (nothing to commit), it has run *)
(* no git checkout -b, no git commit and no git push, and git is on the    *)
(* branch it was on before; for handleChanges and createBranchAndCommit    *)

RanCommand(command) == \E i \in 1..Len(flow.commands) : flow.commands[i] = command

C22_NullWithoutBranch ==
  (flow # <<>> /\ flow.at = "returned" /\ flow.result = "null") =>
    /\ ~RanCommand("checkout -b")
    /\ ~RanCommand("commit")
    /\ ~RanCommand("push")
    /\ flow.branch = flow.start

-----------------------------------------------------------------------------
(* C23: in a call of PRAutomation.createPullRequest the methods are tried  *)
(* in the order GitHub CLI, GitHub API, manual instructions, each only     *)
(* after every method before it created no pull request; at most one pull  *)
(* request is created; and the result returned has success = true exactly  *)
(* when a pull request was created in the call                             *)

MethodOrder == <<"github-cli", "github-api", "manual">>

CreatedAt == {i \in 1..Len(prAuto.tried) : prAuto.tried[i].created}

-----------------------------------------------------------------------------
(* C24: when the files captured before and after the generation are the    *)
(* same paths with the same hashes, generateSDK reports hasChanges = false *)
(* and run returns updated: false, reason 'no-code-changes' with no        *)
(* analysis and no git command run                                         *)

C24_SameFilesNoCodeChanges ==
  (upd # <<>> /\ upd.generation # <<>>
     /\ upd.generation[1].before.files = upd.generation[1].after.files) =>
    /\ ~upd.generation[1].hasChanges
    /\ upd.at = "returned"
    /\ upd.result[1].updated = FALSE
    /\ upd.result[1].reason = "no-code-changes"
    /\ ~upd.analysed
    /\ upd.gitOps = <<>>

-----------------------------------------------------------------------------
(* C25: when handleChanges returned a result, BasicSDKUpdater.run ends by  *)
(* returning {updated: true, branchName, changedFiles, analysis,           *)
(* riskLevel, prResult}, with prResult what createPullRequest returned     *)
(* when createPR is set and null when it is not; it does not throw         *)

C25_ResultAfterGitWorkflow ==
  (basic # <<>> /\ basic.gitResult # <<>> /\ basic.at \in {"returned", "threw"}) =>
    /\ basic.at = "returned"
    /\ basic.result =
         <<UpdatedResult(basic.gitResult[1], basic.level,
                         IF basic.createPR THEN basic.created ELSE <<>>)>>

-----------------------------------------------------------------------------
(* C26: applyFileUpdate writes a file only with content that is a          *)
(* non-empty string, for a name ending in .ts or .js, that                 *)
(* validateTypeScriptSyntax accepts, and a file that was there only with a *)
(* backup of its text made; an update that fails a check leaves its file   *)
(* as it was, is in results.errors and not in results.updatedFiles, and    *)
(* the updates after it are still handled; without canAutomate no file is  *)
(* written and none backed up                                              *)

PassesChecks(update) ==
  /\ update.content.type = "string"
  /\ update.content.text # EmptyString
  /\ EndsWith(update.filename, <<".", "ts">>) \/ EndsWith(update.filename, <<".", "js">>)
  /\ ValidateTypeScriptSyntax(update.content.text)

InErrors(filename) == \E i \in 1..Len(wrapper.errors) : wrapper.errors[i] = filename

InUpdatedFiles(filename) ==
  \E i \in 1..Len(wrapper.updatedFiles) : wrapper.updatedFiles[i].file = filename

C26_BackupThenCheckedWrite ==
  wrapper # <<>> =>
    /\ \A k \in 1..Len(wrapper.log) :
         LET update == wrapper.suggestedUpdates[k]
             turn == wrapper.log[k]
         IN /\ turn.filename = update.filename
            /\ turn.wrote =>
                 /\ PassesChecks(update)
                 /\ turn.before # <<>> =>
                      [filename |-> update.filename, text |-> turn.before[1]] \in turn.backups
            /\ ~PassesChecks(update) =>
                 /\ wrapper.files[update.filename] = wrapper.initial[update.filename]
                 /\ InErrors(update.filename)
                 /\ ~InUpdatedFiles(update.filename)
    /\ (wrapper.at = "returned" /\ wrapper.canAutomate) =>
         Len(wrapper.log) = Len(wrapper.suggestedUpdates)
    /\ ~wrapper.canAutomate =>
         /\ wrapper.files = wrapper.initial
         /\ wrapper.backups = {}
         /\ wrapper.log = <<>>

\* C26: the first update failed validateTypeScriptSyntax and left its file as
\* it was, and the second was then written over a file that was there, with
\* the backup of that file made
C26_Witness ==
  /\ wrapper # <<>>
  /\ wrapper.at = "returned"
  /\ Len(wrapper.log) = 2
  /\ ~ValidateTypeScriptSyntax(wrapper.suggestedUpdates[1].content.text)
  /\ wrapper.suggestedUpdates[1].content.type = "string"
  /\ wrapper.initial[wrapper.suggestedUpdates[1].filename] # <<>>
  /\ wrapper.files[wrapper.suggestedUpdates[1].filename] = <<OldText>>
  /\ wrapper.errors = <<wrapper.suggestedUpdates[1].filename>>
  /\ wrapper.initial[wrapper.suggestedUpdates[2].filename] # <<>>
  /\ InUpdatedFiles(wrapper.suggestedUpdates[2].filename)
  /\ wrapper.files[wrapper.suggestedUpdates[2].filename]
       = <<wrapper.suggestedUpdates[2].content.text>>
  /\ [filename |-> wrapper.suggestedUpdates[2].filename, text |-> OldText] \in wrapper.backups

-----------------------------------------------------------------------------
(* C27: LLMAnalyzer.analyzeChanges returns an analysis whose               *)
(* riskAssessment.level is LOW, MEDIUM, HIGH or BREAKING; when the client  *)
(* call throws, the response has no usable content or its text is not      *)
(* valid JSON, the analysis is the fallback: level HIGH and                *)
(* metadata.analysisMethod = 'fallback'                                    *)

Unusable(response) ==
  \/ response.kind \in {"threw", "null content", "no tool_use"}
  \/ response.kind = "message" /\ JsonParse(CleanJsonResponse(response.content)) = <<>>

C27_LevelAlwaysValid ==
  (llm # <<>> /\ llm.result # <<>>) =>
    /\ llm.result[1].riskAssessment # <<>>
    /\ llm.result[1].riskAssessment[1].level \in RiskLevels
    /\ Unusable(llm.response[1]) =>
         /\ llm.result[1].riskAssessment[1].level = "HIGH"
         /\ llm.result[1].metadata.analysisMethod = "fallback"

-----------------------------------------------------------------------------
(* C28: in one run every wrapper file analysed so far was correlated       *)
(* against the changed files of the report's gitChanges: its analysis is   *)
(* the one analyzeClientFile gives for those changed files, also when the  *)
(* working tree changed during the run                                     *)

C28_OneChangedFileSet ==
  \A i \in 1..Len(clientAnalyses) :
    clientAnalyses[i] =
      AnalyzeClientFile(Join(ClientDir, tsFiles[i]), WrapperContent(tsFiles[i]),
                        analysis.gitChanges)


\* The sizes of the groups a formatted text names, added up
RECURSIVE SumOfCounts(_)
SumOfCounts(lines) ==
  IF lines = <<>> THEN 0 ELSE Head(lines).count + SumOfCounts(Tail(lines))

\* The sizes of the three groups of paths extractDiffHighlights returned, added up
SumOfGroups(h) == Len(h.newFiles) + Len(h.deletedFiles) + Len(h.modifiedFiles)

\* C29: whatever the diff text, the sizes of the new, deleted and modified
\* groups add up to the number of file records of parseStructuredDiff, in what
\* extractDiffHighlights returns and in what formatDiffHighlights returns: no
\* file is counted in two groups.
C29_OneGroupPerFile ==
  (structuredDiff # <<>> /\ highlights # <<>>) =>
    LET files == structuredDiff[1].files
    IN /\ highlights.extracted # <<>> =>
            SumOfGroups(highlights.extracted[1]) = Len(files)
       /\ (highlights.formatted # <<>> /\ Len(files) > 0) =>
            SumOfCounts(highlights.formatted[1]) = Len(files)

=============================================================================
